---- MODULE Spec2Model ----
(***************************************************************************)
(* Workflow step definitions (entities/steps.py): construction of a step   *)
(* (pydantic type check + field validators), validate_field_selector and   *)
(* validate_field_binding of every step variant, and the graph validation  *)
(* engine that walks the declared steps.                                   *)
(*                                                                         *)
(* Values.  A Python value is a record [t, n, s, l, d]:                    *)
(*   t = "none" | "bool" | "int" | "float" | "str" | "list" | "dict" |     *)
(*       "image"                                                           *)
(*   n = the number in tenths (0.4 is 4, the int 1 is 10, True is 10)      *)
(*   s = the text of a str                                                 *)
(*   l = the elements of a list (texts)                                    *)
(*   d = the items of a dict with str keys (records [t, n])                *)
(* An outcome is a record [kind, field]: kind "ok" or the exception class, *)
(* field the field name the error message names ("" when none).            *)
(***************************************************************************)
EXTENDS Integers, Sequences, FiniteSets, TLC

\* ------------------------------------------------------------------ bounds

\* longest `predictions` list of a consensus step
MaxPredictions == 2

\* most entries of a `required_objects` mapping
MaxEntries == 2

\* most images handed to one run of the data-collector sink
MaxImages == 2

\* most runs of the data-collector sink
MaxRuns == 1

\* largest usage limit a run of the sink is given
MaxLimit == 2

\* ------------------------------------------------------------------ values

NoneV == [t |-> "none", n |-> 0, s |-> "", l |-> <<>>, d |-> <<>>]

IntV(i) == [t |-> "int", n |-> i * 10, s |-> "", l |-> <<>>, d |-> <<>>]

FloatV(tenths) == [t |-> "float", n |-> tenths, s |-> "", l |-> <<>>, d |-> <<>>]

BoolV(b) == [t |-> "bool", n |-> IF b THEN 10 ELSE 0, s |-> "", l |-> <<>>, d |-> <<>>]

\* float("inf"): a float above every number, which round() cannot convert
FloatInf == [t |-> "float", n |-> 1000000, s |-> "inf", l |-> <<>>, d |-> <<>>]

StrV(text) == [t |-> "str", n |-> 0, s |-> text, l |-> <<>>, d |-> <<>>]

\* a well-formed image payload handed over at execution time
ImageV == [t |-> "image", n |-> 0, s |-> "", l |-> <<>>, d |-> <<>>]

\* what pydantic answers for a value no member of the annotation takes
Reject == [t |-> "reject", n |-> 0, s |-> "", l |-> <<>>, d |-> <<>>]

ListV(elems) == [t |-> "list", n |-> 0, s |-> "", l |-> elems, d |-> <<>>]

\* a value held in a dict: None or a number
Item(v) == [t |-> v.t, n |-> v.n]

\* a dict with str keys, given by the items it holds in insertion order
DictV(items) == [t |-> "dict", n |-> 0, s |-> "", l |-> <<>>, d |-> items]

Ok == [kind |-> "ok", field |-> ""]

Err(kind, field) == [kind |-> kind, field |-> field]

\* the first raised exception of a sequence of checks run one after another
RECURSIVE FirstError(_)
FirstError(outcomes) ==
    IF outcomes = <<>> THEN Ok
    ELSE IF Head(outcomes).kind # "ok" THEN Head(outcomes)
    ELSE FirstError(Tail(outcomes))

\* ------------------------------------------------------------ selectors

ImageInputSelector == "$inputs.image"

ParameterSelector == "$inputs.confidence"

DetectionsSelector == "$steps.det.predictions"

CropsSelector == "$steps.crop.crops"

ClassificationSelector == "$steps.cls.top"

MissingStepSelector == "$steps.ghost.predictions"

SelectorTexts ==
    { ImageInputSelector, ParameterSelector, DetectionsSelector, CropsSelector,
      ClassificationSelector, MissingStepSelector }

is_selector(v) == v.t = "str" /\ v.s \in SelectorTexts

\* -------------------------------------------------------- graph node types

StepTypes ==
    { "RoboflowModel", "ClassificationModel", "MultiLabelClassificationModel",
      "ObjectDetectionModel", "KeypointsDetectionModel",
      "InstanceSegmentationModel", "OCRModel", "Crop", "Condition",
      "DetectionFilter", "DetectionOffset", "AbsoluteStaticCrop",
      "RelativeStaticCrop", "ClipComparison", "DetectionsConsensus" }

\* nodes whose value is of image kind
ImageKindTypes ==
    { "InferenceImage", "Crop", "AbsoluteStaticCrop", "RelativeStaticCrop" }

\* nodes whose `predictions` are detections
DetectionsKindTypes ==
    { "ObjectDetectionModel", "KeypointsDetectionModel",
      "InstanceSegmentationModel", "DetectionFilter", "DetectionOffset",
      "DetectionsConsensus" }

validate_selector_holds_image(field_name, input_type, applicable_fields) ==
    IF field_name \notin applicable_fields THEN Ok
    ELSE IF input_type \notin ImageKindTypes
         THEN Err("InvalidStepInputDetected", field_name)
         ELSE Ok

validate_selector_is_inference_parameter(field_name, input_type, applicable_fields) ==
    IF field_name \notin applicable_fields THEN Ok
    ELSE IF input_type # "InferenceParameter"
         THEN Err("InvalidStepInputDetected", field_name)
         ELSE Ok

validate_selector_holds_detections(field_name, input_type, applicable_fields) ==
    IF field_name \notin applicable_fields THEN Ok
    ELSE IF input_type \notin DetectionsKindTypes
         THEN Err("InvalidStepInputDetected", field_name)
         ELSE Ok

\* ------------------------------------------- validators.py (field checks)

\* issubclass(type(value), int): bool is a subclass of int
IsInt(v) == v.t \in {"int", "bool"}

validate_image_is_valid_selector(v) ==
    \/ is_selector(v)
    \/ v.t = "list" /\ \A i \in 1..Len(v.l) : v.l[i] \in SelectorTexts

validate_field_has_given_type(v, allowed_types) ==
    \/ v.t \in allowed_types
    \/ v.t = "bool" /\ "int" \in allowed_types

validate_field_is_selector_or_has_given_type(v, allowed_types) ==
    is_selector(v) \/ validate_field_has_given_type(v, allowed_types)

validate_value_is_empty_or_number_in_range_zero_one(v) ==
    /\ validate_field_has_given_type(v, {"none", "int", "float"})
    /\ v.t = "none" \/ (0 <= v.n /\ v.n <= 10)

validate_field_is_in_range_zero_one_or_empty_or_selector(v) ==
    \/ is_selector(v)
    \/ v.t = "none"
    \/ validate_value_is_empty_or_number_in_range_zero_one(v)

validate_value_is_empty_or_positive_number(v) ==
    /\ validate_field_has_given_type(v, {"none", "int", "float"})
    /\ v.t = "none" \/ v.n > 0

validate_value_is_empty_or_selector_or_positive_number(v) ==
    is_selector(v) \/ validate_value_is_empty_or_positive_number(v)

validate_field_is_list_of_string(v) == v.t = "list"

validate_field_is_empty_or_selector_or_list_of_string(v) ==
    is_selector(v) \/ v.t = "none" \/ validate_field_is_list_of_string(v)

validate_field_is_list_of_selectors(v) ==
    v.t = "list" /\ \A i \in 1..Len(v.l) : v.l[i] \in SelectorTexts

validate_field_is_one_of_selected_values(v, selected_values) ==
    v.t = "str" /\ v.s \in selected_values

validate_field_is_selector_or_one_of_values(v, selected_values) ==
    \/ is_selector(v)
    \/ v.t = "none"
    \/ validate_field_is_one_of_selected_values(v, selected_values)

validate_image_biding(v) == v.t = "image"

\* ------------------------------------------------- steps.py: the classes

\* the base class of a step class ("" for a root)
Parent(cls) ==
    CASE cls \in { "ClassificationModel", "MultiLabelClassificationModel",
                   "ObjectDetectionModel" } -> "RoboflowModel"
      [] cls \in { "KeypointsDetectionModel", "InstanceSegmentationModel" }
            -> "ObjectDetectionModel"
      [] OTHER -> ""

\* the annotation of every field a class body declares (`type` and `name`
\* apart, and the enum-typed fields, which take no selector)
OwnAnnotations(cls) ==
    CASE cls = "RoboflowModel" ->
            [ image |-> "Union[str, List[str]]", model_id |-> "str",
              disable_active_learning |-> "Union[Optional[bool], str]" ]
      [] cls \in { "ClassificationModel", "MultiLabelClassificationModel" } ->
            [ confidence |-> "Union[Optional[float], str]" ]
      [] cls = "ObjectDetectionModel" ->
            [ class_agnostic_nms |-> "Union[Optional[bool], str]",
              class_filter |-> "Union[Optional[List[str]], str]",
              confidence |-> "Union[Optional[float], str]",
              iou_threshold |-> "Union[Optional[float], str]",
              max_detections |-> "Union[Optional[int], str]",
              max_candidates |-> "Union[Optional[int], str]" ]
      [] cls = "KeypointsDetectionModel" ->
            [ keypoint_confidence |-> "Union[Optional[float], str]" ]
      [] cls = "InstanceSegmentationModel" ->
            [ mask_decode_mode |-> "Optional[str]",
              tradeoff_factor |-> "Union[Optional[float], str]" ]
      [] cls = "OCRModel" -> [ image |-> "Union[str, List[str]]" ]
      [] cls = "Crop" ->
            [ image |-> "Union[str, List[str]]", detections |-> "str" ]
      [] cls = "Condition" ->
            [ left |-> "Union[float, int, bool, str, list, set]",
              right |-> "Union[float, int, bool, str, list, set]",
              step_if_true |-> "str", step_if_false |-> "str" ]
      [] cls = "DetectionFilter" -> [ predictions |-> "str" ]
      [] cls = "DetectionOffset" ->
            [ predictions |-> "str", offset_x |-> "Union[int, str]",
              offset_y |-> "Union[int, str]" ]
      [] cls = "AbsoluteStaticCrop" ->
            [ image |-> "Union[str, List[str]]", x_center |-> "Union[int, str]",
              y_center |-> "Union[int, str]", width |-> "Union[int, str]",
              height |-> "Union[int, str]" ]
      [] cls = "RelativeStaticCrop" ->
            [ image |-> "Union[str, List[str]]", x_center |-> "Union[float, str]",
              y_center |-> "Union[float, str]", width |-> "Union[float, str]",
              height |-> "Union[float, str]" ]
      [] cls = "ClipComparison" ->
            [ image |-> "Union[str, List[str]]", text |-> "Union[str, List[str]]" ]
      [] cls = "DetectionsConsensus" ->
            [ predictions |-> "List[str]", required_votes |-> "Union[int, str]",
              class_aware |-> "Union[bool, str]",
              iou_threshold |-> "Union[float, str]",
              confidence |-> "Union[float, str]",
              classes_to_consider |-> "Optional[Union[List[str], str]]",
              required_objects |-> "Optional[Union[int, Dict[str, int], str]]" ]

\* the fields a class body gives a default (Field(default=...))
OwnDefaults(cls) ==
    CASE cls = "RoboflowModel" -> [ disable_active_learning |-> BoolV(FALSE) ]
      [] cls \in { "ClassificationModel", "MultiLabelClassificationModel" } ->
            [ confidence |-> FloatV(4) ]
      [] cls = "ObjectDetectionModel" ->
            [ class_agnostic_nms |-> BoolV(FALSE), class_filter |-> NoneV,
              confidence |-> FloatV(4), iou_threshold |-> FloatV(3),
              max_detections |-> IntV(300), max_candidates |-> IntV(3000) ]
      [] cls = "KeypointsDetectionModel" -> [ keypoint_confidence |-> FloatV(0) ]
      [] cls = "InstanceSegmentationModel" ->
            [ mask_decode_mode |-> StrV("accurate"), tradeoff_factor |-> FloatV(0) ]
      [] cls = "DetectionsConsensus" ->
            [ class_aware |-> BoolV(TRUE), iou_threshold |-> FloatV(3),
              confidence |-> FloatV(0), classes_to_consider |-> NoneV,
              required_objects |-> NoneV ]
      [] OTHER -> [ f \in {} |-> NoneV ]

\* a class's fields: its own over its base's
RECURSIVE Annotations(_)
Annotations(cls) ==
    IF cls = "" THEN [ f \in {} |-> "" ]
    ELSE OwnAnnotations(cls) @@ Annotations(Parent(cls))

RECURSIVE Defaults(_)
Defaults(cls) ==
    IF cls = "" THEN [ f \in {} |-> NoneV ]
    ELSE OwnDefaults(cls) @@ Defaults(Parent(cls))

ModelFields(cls) == DOMAIN Annotations(cls)

RequiredFields(cls) == ModelFields(cls) \ DOMAIN Defaults(cls)

\* pydantic's validation of a dict item against `int`: an int is kept, a bool
\* and a float without fractional part are converted, the rest is refused
CoerceInt(item) ==
    IF item.t \in { "int", "bool" } \/ (item.t = "float" /\ item.n % 10 = 0)
    THEN [ t |-> "int", n |-> item.n ]
    ELSE Item(Reject)

\* pydantic's validation of a value against a field annotation (smart
\* union: the member of the value's own type, else the first member that
\* converts it); Reject when no member takes the value
Coerce(annotation, v) ==
    LET optional == annotation \in
            { "Union[Optional[bool], str]", "Union[Optional[float], str]",
              "Union[Optional[int], str]", "Union[Optional[List[str]], str]",
              "Optional[str]", "Optional[Union[List[str], str]]",
              "Optional[Union[int, Dict[str, int], str]]" }
        floats == annotation \in
            { "Union[Optional[float], str]", "Union[float, str]" }
        ints == annotation \in
            { "Union[Optional[int], str]", "Union[int, str]",
              "Optional[Union[int, Dict[str, int], str]]" }
        bools == annotation \in
            { "Union[Optional[bool], str]", "Union[bool, str]" }
        lists == annotation \in
            { "Union[str, List[str]]", "Union[Optional[List[str]], str]",
              "List[str]", "Optional[Union[List[str], str]]" }
        strs == annotation # "List[str]"
        dicts == annotation = "Optional[Union[int, Dict[str, int], str]]"
    IN  IF annotation = "Union[float, int, bool, str, list, set]"
        THEN IF v.t \in { "float", "int", "bool", "str", "list" } THEN v ELSE Reject
        ELSE CASE v.t = "none" -> IF optional THEN v ELSE Reject
               [] v.t = "str" -> IF strs THEN v ELSE Reject
               [] v.t = "list" -> IF lists THEN v ELSE Reject
               [] v.t = "float" ->
                    IF floats THEN v
                    ELSE IF ints /\ v.n % 10 = 0 THEN [v EXCEPT !.t = "int"]
                    ELSE Reject
               [] v.t = "int" ->
                    IF ints THEN v
                    ELSE IF floats THEN [v EXCEPT !.t = "float"]
                    ELSE IF bools /\ v.n \in {0, 10} THEN [v EXCEPT !.t = "bool"]
                    ELSE Reject
               [] v.t = "bool" ->
                    IF bools THEN v
                    ELSE IF ints THEN [v EXCEPT !.t = "int"]
                    ELSE IF floats THEN [v EXCEPT !.t = "float"]
                    ELSE Reject
               [] v.t = "dict" ->
                    IF dicts /\ \A i \in 1..Len(v.d) : CoerceInt(v.d[i]) # Item(Reject)
                    THEN [v EXCEPT !.d = [ i \in 1..Len(v.d) |-> CoerceInt(v.d[i]) ]]
                    ELSE Reject
               [] OTHER -> Reject

\* --------------------------------------------- steps.py: field validators

\* a set of modes that takes one more
DECODE_MODES_Wider == { "accurate", "tradeoff", "fast", "ultra" }

DECODE_MODES == { "accurate", "tradeoff", "fast" }

CropCoordinates == { "x_center", "y_center", "width", "height" }

Crop_detections_must_hold_selector(v) == is_selector(v)

RelativeStaticCrop_detections_must_hold_selector(v) ==
    IF v.t = "str" THEN is_selector(v) ELSE v.t = "float"

ClipComparison_text_must_be_valid(v) ==
    IF is_selector(v) THEN TRUE
    ELSE IF v.t = "list" THEN validate_field_is_list_of_string(v)
    ELSE v.t = "str"

\* variant: the length of the list is not looked at
predictions_must_be_list_of_selectors_AnyLength(v) ==
    validate_field_is_list_of_selectors(v)

predictions_must_be_list_of_selectors(v) ==
    /\ validate_field_is_list_of_selectors(v)
    /\ ~ (Len(v.l) < 1)

required_votes_must_be_selector_or_positive_integer(v) ==
    /\ v.t # "none"
    /\ validate_value_is_empty_or_selector_or_positive_number(v)

DetectionsConsensus_field_must_be_selector_or_number_from_zero_to_one(v) ==
    /\ v.t # "none"
    /\ validate_field_is_in_range_zero_one_or_empty_or_selector(v)

required_objects_field_must_be_valid(v) ==
    IF v.t = "none" THEN TRUE
    ELSE /\ validate_field_is_selector_or_has_given_type(v, {"int", "dict"})
         /\ IsInt(v) => validate_value_is_empty_or_positive_number(v)
         /\ v.t = "dict" =>
                \A i \in 1..Len(v.d) :
                    /\ v.d[i].t # "none"
                    /\ validate_value_is_empty_or_positive_number(v.d[i])

\* the @field_validator methods a class body defines: the method's name and
\* the fields it is registered for
OwnValidators(cls) ==
    CASE cls = "RoboflowModel" ->
            { [ owner |-> cls, name |-> "validate_image", fields |-> {"image"} ],
              [ owner |-> cls, name |-> "model_id_must_be_selector_or_str",
                fields |-> {"model_id"} ],
              [ owner |-> cls, name |-> "disable_active_learning_must_be_selector_or_bool",
                fields |-> {"disable_active_learning"} ] }
      [] cls \in { "ClassificationModel", "MultiLabelClassificationModel" } ->
            { [ owner |-> cls, name |-> "confidence_must_be_selector_or_number",
                fields |-> {"confidence"} ] }
      [] cls = "ObjectDetectionModel" ->
            { [ owner |-> cls, name |-> "class_agnostic_nms_must_be_selector_or_bool",
                fields |-> {"class_agnostic_nms"} ],
              [ owner |-> cls, name |-> "class_filter_must_be_selector_or_list_of_string",
                fields |-> {"class_filter"} ],
              [ owner |-> cls, name |-> "field_must_be_selector_or_number_from_zero_to_one",
                fields |-> {"confidence", "iou_threshold"} ],
              [ owner |-> cls, name |-> "field_must_be_selector_or_positive_number",
                fields |-> {"max_detections", "max_candidates"} ] }
      [] cls = "KeypointsDetectionModel" ->
            { [ owner |-> cls,
                name |-> "keypoint_confidence_field_must_be_selector_or_number_from_zero_to_one",
                fields |-> {"keypoint_confidence"} ] }
      [] cls = "InstanceSegmentationModel" ->
            { [ owner |-> cls,
                name |-> "mask_decode_mode_must_be_selector_or_one_of_allowed_values",
                fields |-> {"mask_decode_mode"} ],
              [ owner |-> cls, name |-> "field_must_be_selector_or_number_from_zero_to_one",
                fields |-> {"tradeoff_factor"} ] }
      [] cls = "OCRModel" ->
            { [ owner |-> cls, name |-> "image_must_only_hold_selectors",
                fields |-> {"image"} ] }
      [] cls = "Crop" ->
            { [ owner |-> cls, name |-> "image_must_only_hold_selectors",
                fields |-> {"image"} ],
              [ owner |-> cls, name |-> "detections_must_hold_selector",
                fields |-> {"detections"} ] }
      [] cls = "AbsoluteStaticCrop" ->
            { [ owner |-> cls, name |-> "image_must_only_hold_selectors",
                fields |-> {"image"} ],
              [ owner |-> cls, name |-> "validate_crops_coordinates",
                fields |-> CropCoordinates ] }
      [] cls = "RelativeStaticCrop" ->
            { [ owner |-> cls, name |-> "image_must_only_hold_selectors",
                fields |-> {"image"} ],
              [ owner |-> cls, name |-> "detections_must_hold_selector",
                fields |-> CropCoordinates ] }
      [] cls = "ClipComparison" ->
            { [ owner |-> cls, name |-> "image_must_only_hold_selectors",
                fields |-> {"image"} ],
              [ owner |-> cls, name |-> "text_must_be_valid", fields |-> {"text"} ] }
      [] cls = "DetectionsConsensus" ->
            { [ owner |-> cls, name |-> "predictions_must_be_list_of_selectors",
                fields |-> {"predictions"} ],
              [ owner |-> cls, name |-> "required_votes_must_be_selector_or_positive_integer",
                fields |-> {"required_votes"} ],
              [ owner |-> cls, name |-> "class_aware_must_be_selector_or_boolean",
                fields |-> {"class_aware"} ],
              [ owner |-> cls, name |-> "field_must_be_selector_or_number_from_zero_to_one",
                fields |-> {"iou_threshold", "confidence"} ],
              [ owner |-> cls,
                name |-> "classes_to_consider_must_be_empty_or_selector_or_list_of_strings",
                fields |-> {"classes_to_consider"} ],
              [ owner |-> cls, name |-> "required_objects_field_must_be_valid",
                fields |-> {"required_objects"} ] }
      [] OTHER -> {}

\* the body of a @field_validator method: TRUE when it returns the value,
\* FALSE when it raises
RunValidator(owner, name, v) ==
    CASE name \in { "validate_image", "image_must_only_hold_selectors" } ->
            validate_image_is_valid_selector(v)
      [] name = "model_id_must_be_selector_or_str" ->
            validate_field_is_selector_or_has_given_type(v, {"str"})
      [] name \in { "disable_active_learning_must_be_selector_or_bool",
                    "class_agnostic_nms_must_be_selector_or_bool" } ->
            validate_field_is_selector_or_has_given_type(v, {"none", "bool"})
      [] name \in { "confidence_must_be_selector_or_number",
                    "keypoint_confidence_field_must_be_selector_or_number_from_zero_to_one" } ->
            validate_field_is_in_range_zero_one_or_empty_or_selector(v)
      [] name = "field_must_be_selector_or_number_from_zero_to_one" ->
            IF owner = "DetectionsConsensus"
            THEN DetectionsConsensus_field_must_be_selector_or_number_from_zero_to_one(v)
            ELSE validate_field_is_in_range_zero_one_or_empty_or_selector(v)
      [] name \in { "class_filter_must_be_selector_or_list_of_string",
                    "classes_to_consider_must_be_empty_or_selector_or_list_of_strings" } ->
            validate_field_is_empty_or_selector_or_list_of_string(v)
      [] name \in { "field_must_be_selector_or_positive_number",
                    "validate_crops_coordinates" } ->
            validate_value_is_empty_or_selector_or_positive_number(v)
      [] name = "mask_decode_mode_must_be_selector_or_one_of_allowed_values" ->
            validate_field_is_selector_or_one_of_values(v, DECODE_MODES)
      [] name = "detections_must_hold_selector" ->
            IF owner = "Crop" THEN Crop_detections_must_hold_selector(v)
            ELSE RelativeStaticCrop_detections_must_hold_selector(v)
      [] name = "text_must_be_valid" -> ClipComparison_text_must_be_valid(v)
      [] name = "predictions_must_be_list_of_selectors" ->
            predictions_must_be_list_of_selectors(v)
      [] name = "required_votes_must_be_selector_or_positive_integer" ->
            required_votes_must_be_selector_or_positive_integer(v)
      [] name = "class_aware_must_be_selector_or_boolean" ->
            validate_field_is_selector_or_has_given_type(v, {"bool"})
      [] name = "required_objects_field_must_be_valid" ->
            required_objects_field_must_be_valid(v)

\* the validators pydantic runs for a class: it gathers the decorated
\* methods of the bases keyed by method name, and a method of the class
\* body replaces a base's method of the same name
RECURSIVE EffectiveValidators(_)
EffectiveValidators(cls) ==
    IF cls = "" THEN {}
    ELSE LET own == OwnValidators(cls)
         IN  own \cup { d \in EffectiveValidators(Parent(cls)) :
                            \A o \in own : o.name # d.name }

\* Cls(**kwargs): kwargs is a function from the given field names to values.
\* Every given field is type-checked against its annotation and then handed
\* to the validators registered for it; defaults are taken as they are.
Construct(cls, kwargs) ==
    LET ann == Annotations(cls)
        missing == RequiredFields(cls) \ DOMAIN kwargs
        coerced == [ f \in DOMAIN kwargs |-> Coerce(ann[f], kwargs[f]) ]
        rejected == { f \in DOMAIN kwargs : coerced[f] = Reject }
        refused == { f \in DOMAIN kwargs \ rejected :
                        \E d \in EffectiveValidators(cls) :
                            f \in d.fields /\ ~ RunValidator(d.owner, d.name, coerced[f]) }
        bad == missing \cup rejected \cup refused
    IN  [ outcome |-> IF bad = {} THEN Ok ELSE Err("ValidationError", ""),
          bad |-> bad,
          step |-> [ type |-> cls, fields |-> coerced @@ Defaults(cls) ] ]

\* ------------------------------------------ steps.py: get_input_names

RECURSIVE get_input_names(_)
get_input_names(cls) ==
    CASE cls = "RoboflowModel" -> { "image", "model_id", "disable_active_learning" }
      [] cls \in { "ClassificationModel", "MultiLabelClassificationModel" } ->
            get_input_names(Parent(cls)) \cup { "confidence" }
      [] cls = "ObjectDetectionModel" ->
            get_input_names(Parent(cls)) \cup
                { "class_agnostic_nms", "class_filter", "confidence",
                  "iou_threshold", "max_detections", "max_candidates" }
      [] cls = "KeypointsDetectionModel" ->
            get_input_names(Parent(cls)) \cup { "keypoint_confidence" }
      [] cls = "InstanceSegmentationModel" ->
            get_input_names(Parent(cls)) \cup { "mask_decode_mode", "tradeoff_factor" }
      [] cls = "OCRModel" -> { "image" }
      [] cls = "Crop" -> { "image", "detections" }
      [] cls = "Condition" -> { "left", "right" }
      [] cls = "DetectionFilter" -> { "predictions" }
      [] cls = "DetectionOffset" -> { "predictions", "offset_x", "offset_y" }
      [] cls \in { "AbsoluteStaticCrop", "RelativeStaticCrop" } ->
            { "image" } \cup CropCoordinates
      [] cls = "ClipComparison" -> { "image", "text" }
      [] cls = "DetectionsConsensus" ->
            { "predictions", "required_votes", "class_aware", "iou_threshold",
              "confidence", "classes_to_consider", "required_objects" }

\* ------------------------------------- steps.py: validate_field_selector
\* index is <<>> for None and <<i>> for the integer i

\* `if not is_selector(getattr(self, field_name)): raise ExecutionGraphError`
FieldIsSelector(step, field_name) ==
    IF field_name \notin DOMAIN step.fields THEN Err("AttributeError", field_name)
    ELSE IF ~ is_selector(step.fields[field_name])
         THEN Err("ExecutionGraphError", field_name)
         ELSE Ok

RoboflowModel_validate_field_selector(step, field_name, input_type) ==
    FirstError(<<
        FieldIsSelector(step, field_name),
        validate_selector_holds_image(field_name, input_type, {"image"}),
        validate_selector_is_inference_parameter(field_name, input_type,
            { "model_id", "disable_active_learning" }) >>)

ClassificationModel_validate_field_selector(step, field_name, input_type) ==
    FirstError(<<
        RoboflowModel_validate_field_selector(step, field_name, input_type),
        validate_selector_is_inference_parameter(field_name, input_type,
            { "confidence" }) >>)

ObjectDetectionModel_validate_field_selector(step, field_name, input_type) ==
    FirstError(<<
        RoboflowModel_validate_field_selector(step, field_name, input_type),
        validate_selector_is_inference_parameter(field_name, input_type,
            { "class_agnostic_nms", "class_filter", "confidence", "iou_threshold",
              "max_detections", "max_candidates" }) >>)

\* variant: the subclass leaves its own field to the parent's check
KeypointsDetectionModel_validate_field_selector_ParentOnly(step, field_name, input_type) ==
    ObjectDetectionModel_validate_field_selector(step, field_name, input_type)

KeypointsDetectionModel_validate_field_selector(step, field_name, input_type) ==
    FirstError(<<
        ObjectDetectionModel_validate_field_selector(step, field_name, input_type),
        validate_selector_is_inference_parameter(field_name, input_type,
            { "keypoint_confidence" }) >>)

InstanceSegmentationModel_validate_field_selector(step, field_name, input_type) ==
    FirstError(<<
        ObjectDetectionModel_validate_field_selector(step, field_name, input_type),
        validate_selector_is_inference_parameter(field_name, input_type,
            { "mask_decode_mode", "tradeoff_factor" }) >>)

OCRModel_validate_field_selector(step, field_name, input_type) ==
    FirstError(<<
        FieldIsSelector(step, field_name),
        validate_selector_holds_image(field_name, input_type, {"image"}) >>)

\* variant: the detections check is left out
Crop_validate_field_selector_ImageOnly(step, field_name, input_type) ==
    FirstError(<<
        FieldIsSelector(step, field_name),
        validate_selector_holds_image(field_name, input_type, {"image"}) >>)

Crop_validate_field_selector(step, field_name, input_type) ==
    FirstError(<<
        FieldIsSelector(step, field_name),
        validate_selector_holds_image(field_name, input_type, {"image"}),
        validate_selector_holds_detections(field_name, input_type, {"detections"}) >>)

\* variant: the exclusion is applied to `left` alone
Condition_validate_field_selector_LeftOnly(step, field_name, input_type) ==
    FirstError(<<
        FieldIsSelector(step, field_name),
        IF field_name = "left" /\ input_type = "InferenceImage"
        THEN Err("InvalidStepInputDetected", field_name)
        ELSE Ok >>)

Condition_validate_field_selector(step, field_name, input_type) ==
    FirstError(<<
        FieldIsSelector(step, field_name),
        IF field_name \in { "left", "right" } /\ input_type = "InferenceImage"
        THEN Err("InvalidStepInputDetected", field_name)
        ELSE Ok >>)

DetectionFilter_validate_field_selector(step, field_name, input_type) ==
    FirstError(<<
        FieldIsSelector(step, field_name),
        validate_selector_holds_detections(field_name, input_type, {"predictions"}) >>)

DetectionOffset_validate_field_selector(step, field_name, input_type) ==
    FirstError(<<
        FieldIsSelector(step, field_name),
        validate_selector_holds_detections(field_name, input_type, {"predictions"}),
        validate_selector_is_inference_parameter(field_name, input_type,
            { "offset_x", "offset_y" }) >>)

StaticCrop_validate_field_selector(step, field_name, input_type) ==
    FirstError(<<
        FieldIsSelector(step, field_name),
        validate_selector_holds_image(field_name, input_type, {"image"}),
        validate_selector_is_inference_parameter(field_name, input_type,
            CropCoordinates) >>)

ClipComparison_validate_field_selector(step, field_name, input_type) ==
    FirstError(<<
        FieldIsSelector(step, field_name),
        validate_selector_holds_image(field_name, input_type, {"image"}),
        validate_selector_is_inference_parameter(field_name, input_type,
            { "text" }) >>)

\* variant: the bound is taken one short, so the last element is refused
ConsensusIndexRefused_LastToo(predictions, index) ==
    index = <<>> \/ index[1] + 1 >= Len(predictions)

\* `index is None or index > len(self.predictions)`
ConsensusIndexRefused(predictions, index) ==
    index = <<>> \/ index[1] > Len(predictions)

\* self.predictions[index]: Python takes -len..len-1 and raises IndexError
\* for the rest; the answer is the 1-based position, 0 for IndexError
ListPosition(predictions, i) ==
    IF 0 <= i /\ i < Len(predictions) THEN i + 1
    ELSE IF i < 0 /\ 0 - Len(predictions) <= i THEN Len(predictions) + i + 1
    ELSE 0

\* variant: the element is checked to be a selector and nothing more
ConsensusElementCheck_SelectorOnly(predictions, field_name, input_type, i) ==
    IF ListPosition(predictions, i) = 0
    THEN Err("IndexError", field_name)
    ELSE IF predictions[ListPosition(predictions, i)] \notin SelectorTexts
    THEN Err("ExecutionGraphError", field_name)
    ELSE Ok

\* the `predictions` branch once the index is let through
ConsensusElementCheck(predictions, field_name, input_type, i) ==
    IF ListPosition(predictions, i) = 0
    THEN Err("IndexError", field_name)
    ELSE IF predictions[ListPosition(predictions, i)] \notin SelectorTexts
    THEN Err("ExecutionGraphError", field_name)
    ELSE validate_selector_holds_detections(field_name, input_type, {"predictions"})

ConsensusParameterCheck(step, field_name, input_type) ==
    FirstError(<<
        FieldIsSelector(step, field_name),
        validate_selector_is_inference_parameter(field_name, input_type,
            { "required_votes", "class_aware", "iou_threshold", "confidence",
              "classes_to_consider", "required_objects" }) >>)

\* variant: a missing index is read as the first element
DetectionsConsensus_validate_field_selector_NoneIsFirst(step, field_name, input_type, index) ==
    IF field_name # "predictions"
    THEN ConsensusParameterCheck(step, field_name, input_type)
    ELSE IF index # <<>> /\ index[1] > Len(step.fields["predictions"].l)
    THEN Err("ExecutionGraphError", field_name)
    ELSE ConsensusElementCheck(step.fields["predictions"].l, field_name, input_type,
                               IF index = <<>> THEN 0 ELSE index[1])

DetectionsConsensus_validate_field_selector(step, field_name, input_type, index) ==
    IF field_name # "predictions"
    THEN ConsensusParameterCheck(step, field_name, input_type)
    ELSE IF ConsensusIndexRefused(step.fields["predictions"].l, index)
    THEN Err("ExecutionGraphError", field_name)
    ELSE ConsensusElementCheck(step.fields["predictions"].l, field_name,
                               input_type, index[1])

\* step.validate_field_selector(field_name, input_step, index)
validate_field_selector(step, field_name, input_type, index) ==
    CASE step.type = "RoboflowModel" ->
            RoboflowModel_validate_field_selector(step, field_name, input_type)
      [] step.type \in { "ClassificationModel", "MultiLabelClassificationModel" } ->
            ClassificationModel_validate_field_selector(step, field_name, input_type)
      [] step.type = "ObjectDetectionModel" ->
            ObjectDetectionModel_validate_field_selector(step, field_name, input_type)
      [] step.type = "KeypointsDetectionModel" ->
            KeypointsDetectionModel_validate_field_selector(step, field_name, input_type)
      [] step.type = "InstanceSegmentationModel" ->
            InstanceSegmentationModel_validate_field_selector(step, field_name, input_type)
      [] step.type = "OCRModel" ->
            OCRModel_validate_field_selector(step, field_name, input_type)
      [] step.type = "Crop" ->
            Crop_validate_field_selector(step, field_name, input_type)
      [] step.type = "Condition" ->
            Condition_validate_field_selector(step, field_name, input_type)
      [] step.type = "DetectionFilter" ->
            DetectionFilter_validate_field_selector(step, field_name, input_type)
      [] step.type = "DetectionOffset" ->
            DetectionOffset_validate_field_selector(step, field_name, input_type)
      [] step.type \in { "AbsoluteStaticCrop", "RelativeStaticCrop" } ->
            StaticCrop_validate_field_selector(step, field_name, input_type)
      [] step.type = "ClipComparison" ->
            ClipComparison_validate_field_selector(step, field_name, input_type)
      [] step.type = "DetectionsConsensus" ->
            DetectionsConsensus_validate_field_selector(step, field_name, input_type, index)

\* -------------------------------------- steps.py: validate_field_binding

\* a check that raises VariableTypeError when it does not hold
Require(holds, field_name) ==
    IF holds THEN Ok ELSE Err("VariableTypeError", field_name)

RoboflowModel_validate_field_binding(field_name, v) ==
    CASE field_name = "image" -> Require(validate_image_biding(v), field_name)
      [] field_name = "model_id" ->
            Require(validate_field_has_given_type(v, {"str"}), field_name)
      [] field_name = "disable_active_learning" ->
            Require(validate_field_has_given_type(v, {"bool"}), field_name)
      [] OTHER -> Ok

ClassificationModel_validate_field_binding(field_name, v) ==
    FirstError(<<
        RoboflowModel_validate_field_binding(field_name, v),
        IF field_name = "confidence"
        THEN Require(v.t # "none"
                     /\ validate_value_is_empty_or_number_in_range_zero_one(v),
                     field_name)
        ELSE Ok >>)

ObjectDetectionModel_validate_field_binding(field_name, v) ==
    FirstError(<<
        RoboflowModel_validate_field_binding(field_name, v),
        Require(v.t # "none", field_name),
        CASE field_name = "class_agnostic_nms" ->
                Require(validate_field_has_given_type(v, {"bool"}), field_name)
          [] field_name = "class_filter" ->
                Require(validate_field_is_list_of_string(v), field_name)
          [] field_name \in { "confidence", "iou_threshold" } ->
                Require(validate_value_is_empty_or_number_in_range_zero_one(v),
                        field_name)
          [] field_name \in { "max_detections", "max_candidates" } ->
                Require(validate_value_is_empty_or_positive_number(v), field_name)
          [] OTHER -> Ok >>)

\* variant: the override checks its own field and does not call the parent's
KeypointsDetectionModel_validate_field_binding_OwnOnly(field_name, v) ==
    IF field_name = "keypoint_confidence"
    THEN Require(validate_value_is_empty_or_number_in_range_zero_one(v), field_name)
    ELSE Ok

KeypointsDetectionModel_validate_field_binding(field_name, v) ==
    FirstError(<<
        ObjectDetectionModel_validate_field_binding(field_name, v),
        IF field_name = "keypoint_confidence"
        THEN Require(validate_value_is_empty_or_number_in_range_zero_one(v),
                     field_name)
        ELSE Ok >>)

InstanceSegmentationModel_validate_field_binding(field_name, v) ==
    FirstError(<<
        ObjectDetectionModel_validate_field_binding(field_name, v),
        CASE field_name = "mask_decode_mode" ->
                Require(validate_field_is_one_of_selected_values(v, DECODE_MODES),
                        field_name)
          [] field_name = "tradeoff_factor" ->
                Require(validate_value_is_empty_or_number_in_range_zero_one(v),
                        field_name)
          [] OTHER -> Ok >>)

ImageOnly_validate_field_binding(field_name, v) ==
    IF field_name = "image" THEN Require(validate_image_biding(v), field_name)
    ELSE Ok

DetectionOffset_validate_field_binding(field_name, v) ==
    IF field_name \in { "offset_x", "offset_y" }
    THEN Require(validate_field_has_given_type(v, {"int"}), field_name)
    ELSE Ok

\* `value == round(value)`, for a finite number held in tenths
IsIntegral(v) == v.n % 10 = 0

\* round(value) raises OverflowError for an infinite float
RoundRaises(v) == v = FloatInf

\* `(not int and not float) or value != round(value)`: the right operand is
\* evaluated only for a number, and round() may raise while it is
AbsoluteStaticCrop_validate_field_binding(field_name, v) ==
    FirstError(<<
        ImageOnly_validate_field_binding(field_name, v),
        IF field_name \in CropCoordinates
        THEN IF ~ IsInt(v) /\ v.t # "float"
             THEN Err("VariableTypeError", field_name)
             ELSE IF RoundRaises(v)
                  THEN Err("OverflowError", field_name)
                  ELSE Require(IsIntegral(v), field_name)
        ELSE Ok >>)

RelativeStaticCrop_validate_field_binding(field_name, v) ==
    FirstError(<<
        ImageOnly_validate_field_binding(field_name, v),
        IF field_name \in CropCoordinates
        THEN Require(validate_field_has_given_type(v, {"float"}), field_name)
        ELSE Ok >>)

ClipComparison_validate_field_binding(field_name, v) ==
    FirstError(<<
        ImageOnly_validate_field_binding(field_name, v),
        IF field_name = "text"
        THEN IF v.t = "list"
             THEN Require(validate_field_is_list_of_string(v), field_name)
             ELSE Require(v.t = "str", field_name)
        ELSE Ok >>)

_validate_required_objects_binding(v) ==
    IF v.t = "none" THEN Ok
    ELSE FirstError(<<
        Require(validate_field_has_given_type(v, {"int", "dict"}), "required_objects"),
        IF IsInt(v)
        THEN Require(validate_value_is_empty_or_positive_number(v), "required_objects")
        ELSE Require(\A i \in 1..Len(v.d) :
                        /\ v.d[i].t # "none"
                        /\ validate_value_is_empty_or_positive_number(v.d[i]),
                     "required_objects") >>)

DetectionsConsensus_validate_field_binding(field_name, v) ==
    CASE field_name = "required_votes" ->
            Require(v.t # "none" /\ validate_value_is_empty_or_positive_number(v),
                    field_name)
      [] field_name = "class_aware" ->
            Require(validate_field_has_given_type(v, {"bool"}), field_name)
      [] field_name \in { "iou_threshold", "confidence" } ->
            Require(v.t # "none"
                    /\ validate_value_is_empty_or_number_in_range_zero_one(v),
                    field_name)
      [] field_name = "classes_to_consider" ->
            IF v.t = "none" THEN Ok
            ELSE Require(validate_field_is_list_of_string(v), field_name)
      [] field_name = "required_objects" -> _validate_required_objects_binding(v)
      [] OTHER -> Ok

\* step.validate_field_binding(field_name, value)
validate_field_binding(step, field_name, v) ==
    CASE step.type = "RoboflowModel" ->
            RoboflowModel_validate_field_binding(field_name, v)
      [] step.type \in { "ClassificationModel", "MultiLabelClassificationModel" } ->
            ClassificationModel_validate_field_binding(field_name, v)
      [] step.type = "ObjectDetectionModel" ->
            ObjectDetectionModel_validate_field_binding(field_name, v)
      [] step.type = "KeypointsDetectionModel" ->
            KeypointsDetectionModel_validate_field_binding(field_name, v)
      [] step.type = "InstanceSegmentationModel" ->
            InstanceSegmentationModel_validate_field_binding(field_name, v)
      [] step.type \in { "OCRModel", "Crop" } ->
            ImageOnly_validate_field_binding(field_name, v)
      [] step.type \in { "Condition", "DetectionFilter" } -> Ok
      [] step.type = "DetectionOffset" ->
            DetectionOffset_validate_field_binding(field_name, v)
      [] step.type = "AbsoluteStaticCrop" ->
            AbsoluteStaticCrop_validate_field_binding(field_name, v)
      [] step.type = "RelativeStaticCrop" ->
            RelativeStaticCrop_validate_field_binding(field_name, v)
      [] step.type = "ClipComparison" ->
            ClipComparison_validate_field_binding(field_name, v)
      [] step.type = "DetectionsConsensus" ->
            DetectionsConsensus_validate_field_binding(field_name, v)

\* the step object once validate_field_selector has returned or raised: no
\* implementation assigns to self
AfterValidateFieldSelector(step, field_name, input_type, index) == step

\* variant: the bound value is stored on the step
AfterValidateFieldBinding_Stores(step, field_name, v) ==
    [ step EXCEPT !.fields[field_name] = v ]

\* the step object once validate_field_binding has returned or raised
AfterValidateFieldBinding(step, field_name, v) == step

\* ------------------------------------------------------- the state machine

\* validation calls made on one step object
MaxCalls == 2

VARIABLES
    step,   \* the step object under validation (NoStep before construction)
    built,  \* the same step as its constructor returned it
    last,   \* the call whose outcome the caller holds (NoCall once taken)
    ncalls, \* the validation calls made on the step so far
    graph,  \* the declared steps of a workflow, in declaration order
    inputs, \* the names of the declared workflow inputs and parameters
    report, \* the violations the last validation of the graph returned
    status  \* "declared" while steps are added, "validated" after validation

unitVars == << step, built, last, ncalls >>

graphVars == << graph, inputs, report, status >>

\* the data-collector sink (data_collector.py)
VARIABLES
    block,     \* the sink as constructed: its API key, its background runner
    call,      \* the run_locally call in progress or just finished
    response,  \* what the last run_locally returned or raised
    granted,   \* quota credits handed out so far
    given_back,\* quota credits returned so far
    requests,  \* registration requests sent to the platform so far
    registered,\* images the platform registered so far
    ws_cached, \* whether the cache holds the workspace name of the API key
    tasks,     \* the tasks added to the background runner, not yet run
    last_exec, \* the last execution of execute_registration
    last_task, \* the outcome of the last task the background runner ran
    runs       \* the run_locally calls made so far

sinkVars ==
    << block, call, response, granted, given_back, requests, registered,
       ws_cached, tasks, last_exec, last_task, runs >>

\* the usage payload utilities (collector_utils.py) and the static crop
VARIABLES
    operands,       \* the usages handed to merge_usage_dicts
    merged,         \* what the merges of the operands returned
    usage_payloads, \* the list handed to zip_usage_payloads
    zipped,         \* what zip_usage_payloads returned or raised
    crop_input,     \* the image and the rectangle handed to take_static_crop
    crop_output     \* the image take_static_crop returned

utilVars == << operands, merged, usage_payloads, zipped, crop_input, crop_output >>

vars ==
    << step, built, last, ncalls, graph, inputs, report, status, block, call,
       response, granted, given_back, requests, registered, ws_cached, tasks,
       last_exec, last_task, runs, operands, merged, usage_payloads, zipped,
       crop_input, crop_output >>

NotCalled == [ ran |-> FALSE ]

\* no utility was called
UtilitiesIdle ==
    /\ operands = <<>>
    /\ merged = NotCalled
    /\ usage_payloads = <<>>
    /\ zipped = NotCalled
    /\ crop_input = NotCalled
    /\ crop_output = NotCalled

\* a result of the sink for one batch element
Result(error_status, message) == [ error_status |-> error_status, message |-> message ]

NoCallInProgress ==
    [ pc |-> "idle", images |-> <<>>, predictions |-> <<>>, disable_sink |-> FALSE,
      fire_and_forget |-> FALSE, limit |-> 0, i |-> 1, out |-> <<>> ]

NoResponse == [ raised |-> "", out |-> <<>> ]

NoExecution ==
    [ ran |-> FALSE, image |-> "", workspace |-> "", credit |-> FALSE, sent |-> FALSE,
      given_back |-> FALSE, registered |-> FALSE, result |-> Result(FALSE, "") ]

NoTask == [ ran |-> FALSE, raised |-> "" ]

\* the sink constructed with an API key ("" for None) and with or without a
\* background runner, before any call
SinkConstructed(api_key, background_tasks) ==
    /\ block = [ api_key |-> api_key, background_tasks |-> background_tasks ]
    /\ call = NoCallInProgress
    /\ response = NoResponse
    /\ granted = 0
    /\ given_back = 0
    /\ requests = 0
    /\ registered = 0
    /\ ws_cached = FALSE
    /\ tasks = <<>>
    /\ last_exec = NoExecution
    /\ last_task = NoTask
    /\ runs = 0

NoFields == [ f \in {} |-> NoneV ]

NoStep == [ type |-> "", fields |-> NoFields ]

Call(op, cls, kwargs, field_name, input_type, index, value, outcome) ==
    [ op |-> op, cls |-> cls, kwargs |-> kwargs, field |-> field_name,
      input_type |-> input_type, index |-> index, value |-> value,
      outcome |-> outcome ]

NoCall == Call("", "", NoFields, "", "", <<>>, NoneV, Ok)

\* the nodes handed over as input_step
InputTypes ==
    { "InferenceImage", "InferenceParameter", "Crop", "ObjectDetectionModel",
      "ClassificationModel" }

\* the indices handed over: None, and every integer around the list's ends
Indices ==
    { <<>> } \cup { <<i>> : i \in (0 - MaxPredictions - 1)..(MaxPredictions + 1) }

ListElements == { DetectionsSelector, ClassificationSelector, "ultra" }

RECURSIVE ListsOver(_, _)
ListsOver(elems, n) ==
    IF n = 0 THEN { <<>> }
    ELSE LET shorter == ListsOver(elems, n - 1)
         IN  shorter \cup { Append(l, e) : l \in shorter, e \in elems }

\* the indices a call is given: every one for the list-valued field, and
\* None or 0 for a single-valued one
IndicesFor(cls, field_name) ==
    IF cls = "DetectionsConsensus" /\ field_name = "predictions" THEN Indices
    ELSE { <<>>, <<0>> }

\* the values a `required_objects` mapping holds
DictItems == { Item(NoneV), Item(IntV(1)), Item(IntV(0)), Item(FloatV(15)) }

\* the mappings given as `required_objects`
RequiredObjectsValues == { DictV(d) : d \in ListsOver(DictItems, MaxEntries) }

\* the values bound to a field at execution time
BindingValues ==
    { NoneV, BoolV(TRUE), IntV(1), IntV(0), IntV(-1), FloatV(4), FloatV(15),
      FloatV(20), FloatInf, ImageV,
      StrV("accurate"), StrV("ultra"), ListV(<< "ultra" >>),
      DictV(<< Item(IntV(1)) >>) }

BindingValuesFor(cls, field_name) ==
    IF cls = "DetectionsConsensus" /\ field_name = "required_objects"
    THEN BindingValues \cup RequiredObjectsValues
    ELSE BindingValues

\* the values a field is given at construction
Values ==
    { NoneV, BoolV(TRUE), IntV(0), IntV(1), IntV(-1), FloatV(-5), FloatV(4),
      FloatV(10), FloatV(15), ImageV,
      StrV(ImageInputSelector), StrV(ParameterSelector), StrV(DetectionsSelector),
      StrV(CropsSelector), StrV("accurate"), StrV("tradeoff"), StrV("fast"),
      StrV("ultra") }
    \cup { ListV(l) : l \in ListsOver(ListElements, MaxPredictions) }
    \cup { DictV(<< Item(IntV(1)) >>) }

ValuesFor(cls, field_name) ==
    IF cls = "DetectionsConsensus" /\ field_name = "required_objects"
    THEN Values \cup { FloatV(20) } \cup RequiredObjectsValues
    ELSE Values

\* a well-formed value for every field without a default
Base(cls) ==
    [ f \in RequiredFields(cls) |->
        CASE f = "image" -> StrV(ImageInputSelector)
          [] f = "model_id" -> StrV("some/model")
          [] f = "detections" -> StrV(DetectionsSelector)
          [] f \in { "step_if_true", "step_if_false" } -> StrV("$steps.det")
          [] f = "predictions" ->
                IF cls = "DetectionsConsensus" THEN ListV(<< DetectionsSelector >>)
                ELSE StrV(DetectionsSelector)
          [] f \in { "left", "text" } -> StrV("ultra")
          [] f \in CropCoordinates ->
                IF cls = "RelativeStaticCrop" THEN FloatV(4) ELSE IntV(1)
          [] OTHER -> IntV(1) ]

Init ==
    /\ step = NoStep
    /\ built = NoStep
    /\ last = NoCall
    /\ ncalls = 0
    /\ graph = <<>>
    /\ inputs = {}
    /\ report = {}
    /\ status = "declared"
    /\ SinkConstructed("", FALSE)
    /\ UtilitiesIdle

\* Cls(**kwargs) with one field set apart from the required ones
ConstructStep ==
    /\ step = NoStep
    /\ last = NoCall
    /\ \E cls \in StepTypes : \E f \in ModelFields(cls) : \E v \in ValuesFor(cls, f) :
        LET kwargs == (f :> v) @@ Base(cls)
            made == Construct(cls, kwargs)
        IN  /\ step' = IF made.outcome = Ok THEN made.step ELSE NoStep
            /\ built' = step'
            /\ last' = Call("construct", cls, kwargs, "", "", <<>>, NoneV, made.outcome)
            /\ UNCHANGED << ncalls, graphVars, sinkVars, utilVars >>

\* step.validate_field_selector(field_name, input_step, index)
CallValidateFieldSelector ==
    /\ step # NoStep
    /\ last = NoCall
    /\ ncalls < MaxCalls
    /\ \E f \in get_input_names(step.type), input_type \in InputTypes :
       \E index \in IndicesFor(step.type, f) :
        /\ last' = Call("validate_field_selector", step.type, NoFields, f, input_type,
                        index, NoneV, validate_field_selector(step, f, input_type, index))
        /\ step' = AfterValidateFieldSelector(step, f, input_type, index)
        /\ ncalls' = ncalls + 1
        /\ UNCHANGED << built, graphVars, sinkVars, utilVars >>

\* step.validate_field_binding(field_name, value)
CallValidateFieldBinding ==
    /\ step # NoStep
    /\ last = NoCall
    /\ ncalls < MaxCalls
    /\ \E f \in get_input_names(step.type) : \E v \in BindingValuesFor(step.type, f) :
        /\ last' = Call("validate_field_binding", step.type, NoFields, f, "", <<>>, v,
                        validate_field_binding(step, f, v))
        /\ step' = AfterValidateFieldBinding(step, f, v)
        /\ ncalls' = ncalls + 1
        /\ UNCHANGED << built, graphVars, sinkVars, utilVars >>

\* the caller takes the outcome of its call and goes on to the next
TakeOutcome ==
    /\ last # NoCall
    /\ last' = NoCall
    /\ UNCHANGED << step, built, ncalls, graphVars, sinkVars, utilVars >>

Next ==
    \/ ConstructStep
    \/ CallValidateFieldSelector
    \/ CallValidateFieldBinding
    \/ TakeOutcome

Spec == Init /\ [][Next]_vars

\* --------------------------------------------- the graph validation engine

\* steps of one workflow
MaxSteps == 2

\* what a selector or step reference names: a workflow input or parameter,
\* or a step
SelectorTarget(text) ==
    CASE text = ImageInputSelector -> [ form |-> "input", name |-> "image" ]
      [] text = ParameterSelector -> [ form |-> "input", name |-> "confidence" ]
      [] text \in { DetectionsSelector, "$steps.det" } ->
            [ form |-> "step", name |-> "det" ]
      [] text \in { CropsSelector, "$steps.crop" } ->
            [ form |-> "step", name |-> "crop" ]
      [] text = ClassificationSelector -> [ form |-> "step", name |-> "cls" ]
      [] text = "$steps.cond" -> [ form |-> "step", name |-> "cond" ]
      [] OTHER -> [ form |-> "step", name |-> "ghost" ]

\* the node type of a declared workflow input
InputType(name) == IF name = "image" THEN "InferenceImage" ELSE "InferenceParameter"

StepNamesOf(g) == { g[i].name : i \in 1..Len(g) }

\* the type of the node a selector resolves to, "" when it names nothing
\* the graph declares
Resolve(g, declared, text) ==
    LET target == SelectorTarget(text)
    IN  IF target.form = "input"
        THEN IF target.name \in declared THEN InputType(target.name) ELSE ""
        ELSE IF target.name \in StepNamesOf(g)
             THEN g[CHOOSE i \in 1..Len(g) : g[i].name = target.name].step.type
             ELSE ""

Violation(step_name, field_name, index, kind) ==
    [ step |-> step_name, field |-> field_name, index |-> index, kind |-> kind ]

\* one selector of a field: resolved, then handed to the owning step
SelectorOutcome(g, declared, entry, field_name, text, index) ==
    IF Resolve(g, declared, text) = "" THEN Err("ReferentialError", field_name)
    ELSE validate_field_selector(entry.step, field_name,
                                 Resolve(g, declared, text), index)

\* the violations of one input field of one step: a list of selectors is
\* validated element by element with its index, a selector is resolved and
\* validated, a literal is validated as a binding
FieldViolations(g, declared, entry, field_name) ==
    LET v == entry.step.fields[field_name]
    IN  IF entry.step.type = "DetectionsConsensus" /\ field_name = "predictions"
        THEN { Violation(entry.name, field_name, << i - 1 >>,
                         SelectorOutcome(g, declared, entry, field_name,
                                         v.l[i], << i - 1 >>).kind) :
                 i \in { j \in 1..Len(v.l) :
                            SelectorOutcome(g, declared, entry, field_name,
                                            v.l[j], << j - 1 >>) # Ok } }
        ELSE IF is_selector(v)
        THEN IF SelectorOutcome(g, declared, entry, field_name, v.s, <<>>) # Ok
             THEN { Violation(entry.name, field_name, <<>>,
                        SelectorOutcome(g, declared, entry, field_name, v.s, <<>>).kind) }
             ELSE {}
        ELSE IF validate_field_binding(entry.step, field_name, v) # Ok
             THEN { Violation(entry.name, field_name, <<>>,
                        validate_field_binding(entry.step, field_name, v).kind) }
             ELSE {}

\* variant: only the branch taken on true is resolved
BranchViolations_TrueOnly(g, entry) ==
    IF entry.step.type # "Condition" THEN {}
    ELSE { Violation(entry.name, f, <<>>, "ReferentialError") :
             f \in { b \in { "step_if_true" } :
                        \/ SelectorTarget(entry.step.fields[b].s).form # "step"
                        \/ SelectorTarget(entry.step.fields[b].s).name
                                \notin StepNamesOf(g) } }

\* the branch targets of a Condition are step references: both must name a
\* declared step
BranchViolations(g, entry) ==
    IF entry.step.type # "Condition" THEN {}
    ELSE { Violation(entry.name, f, <<>>, "ReferentialError") :
             f \in { b \in { "step_if_true", "step_if_false" } :
                        \/ SelectorTarget(entry.step.fields[b].s).form # "step"
                        \/ SelectorTarget(entry.step.fields[b].s).name
                                \notin StepNamesOf(g) } }

\* variant: one pass in declaration order, each step validated against the
\* steps declared up to it
ValidateGraphReport_DeclaredBefore(g, declared) ==
    UNION { BranchViolations(SubSeq(g, 1, i), g[i])
            \cup UNION { FieldViolations(SubSeq(g, 1, i), declared, g[i], f) :
                            f \in get_input_names(g[i].step.type) } :
            i \in 1..Len(g) }

\* every violation of the graph, of every field of every step
ValidateGraphReport(g, declared) ==
    UNION { BranchViolations(g, g[i])
            \cup UNION { FieldViolations(g, declared, g[i], f) :
                            f \in get_input_names(g[i].step.type) } :
            i \in 1..Len(g) }

GraphStepTypes ==
    { "ObjectDetectionModel", "ClassificationModel", "Crop", "Condition",
      "DetectionsConsensus" }

\* the names a declared step of a class is given
GraphNamesFor(cls) ==
    CASE cls = "ObjectDetectionModel" -> { "det" }
      [] cls = "ClassificationModel" -> { "cls", "det" }
      [] cls = "Crop" -> { "crop" }
      [] cls = "Condition" -> { "cond" }
      [] cls = "DetectionsConsensus" -> { "cons" }

SomeClasses == "class_filter" :> ListV(<< "ultra" >>)

\* the fields a declared step is given apart from the required ones
GraphKwargs(cls) ==
    CASE cls = "ObjectDetectionModel" ->
            { NoFields, SomeClasses,
              SomeClasses @@ ("image" :> StrV(CropsSelector)),
              SomeClasses @@ ("confidence" :> StrV(ParameterSelector)),
              SomeClasses @@ ("image" :> StrV(MissingStepSelector)),
              SomeClasses @@ ("confidence" :> FloatV(15)) }
      [] cls = "ClassificationModel" ->
            { NoFields, "confidence" :> StrV(ParameterSelector) }
      [] cls = "Crop" ->
            { NoFields, "detections" :> StrV(ClassificationSelector),
              "detections" :> StrV(MissingStepSelector),
              "image" :> StrV(ParameterSelector) }
      [] cls = "Condition" ->
            { NoFields, "left" :> StrV(ParameterSelector),
              "left" :> StrV(ImageInputSelector),
              "step_if_true" :> StrV("$steps.ghost"),
              "step_if_false" :> StrV("$steps.ghost"),
              "step_if_false" :> StrV(ImageInputSelector),
              ("step_if_true" :> StrV("$steps.cond"))
                  @@ ("step_if_false" :> StrV("$steps.cond")),
              ("step_if_true" :> StrV("$steps.ghost"))
                  @@ ("step_if_false" :> StrV("$steps.ghost")) }
      [] cls = "DetectionsConsensus" ->
            { "predictions" :> ListV(l) :
                l \in ListsOver({ DetectionsSelector, ClassificationSelector,
                                  MissingStepSelector }, MaxPredictions) }

InitGraph ==
    /\ step = NoStep
    /\ built = NoStep
    /\ last = NoCall
    /\ ncalls = 0
    /\ graph = <<>>
    /\ inputs \in { { "image", "confidence" }, { "image" } }
    /\ report = {}
    /\ status = "declared"
    /\ SinkConstructed("", FALSE)
    /\ UtilitiesIdle

\* a step is constructed and joins the graph; a step whose construction
\* fails never does
DeclareStep ==
    /\ status = "declared"
    /\ Len(graph) < MaxSteps
    /\ \E cls \in GraphStepTypes :
       \E name \in GraphNamesFor(cls) \ StepNamesOf(graph), kwargs \in GraphKwargs(cls) :
        LET made == Construct(cls, kwargs @@ Base(cls))
        IN  /\ made.outcome = Ok
            /\ graph' = Append(graph, [ name |-> name, step |-> made.step ])
    /\ UNCHANGED << unitVars, inputs, report, status, sinkVars, utilVars >>

\* the graph is validated as a unit
ValidateGraph ==
    /\ report' = ValidateGraphReport(graph, inputs)
    /\ status' = "validated"
    /\ UNCHANGED << unitVars, graph, inputs, sinkVars, utilVars >>

NextGraph ==
    \/ DeclareStep
    \/ ValidateGraph

SpecGraph == InitGraph /\ [][NextGraph]_vars

\* ------------------------------------------------- data_collector.py

DUPLICATED_STATUS == "Duplicated image"

\* what the platform and the image loader answer to one registration: the
\* image is registered, it is a duplicate, the request raises, or the image
\* cannot be loaded
PlatformAnswers == { "registered", "duplicate", "request_raises", "load_raises" }

\* the workspace name as the caller receives it: the cached name on a hit;
\* on a miss the name is fetched and stored, and the function falls off its
\* end without a return ("None")
get_workspace_name(cached) == IF cached THEN "workspace" ELSE "None"

\* a credit is handed out while fewer than `limit` are in use
use_credit_of_matching_strategy(in_use, limit) == in_use < limit

\* variant: a duplicate is answered with an image id as well
safe_register_image_at_roboflow_IdForDuplicate(answer) == "image-id"

\* the id of the registered image, "None" for a duplicate
safe_register_image_at_roboflow(answer) ==
    IF answer = "duplicate" THEN "None" ELSE "image-id"

\* the status of the registration; "None" where the function has no return
register_datapoint(answer, prediction) ==
    IF safe_register_image_at_roboflow(answer) = "None" THEN DUPLICATED_STATUS
    ELSE IF prediction = "None" THEN "Successfully registered image"
    ELSE "None"

Execution(image, workspace, credit, sent, back, done, result) ==
    [ ran |-> TRUE, image |-> image, workspace |-> workspace, credit |-> credit,
      sent |-> sent, given_back |-> back, registered |-> done, result |-> result ]

\* variant: the registration goes on when no credit was handed out
execute_registration_NoQuotaCheck(image, prediction, limit, cached, in_use, answer) ==
    LET workspace == get_workspace_name(cached)
        credit == use_credit_of_matching_strategy(in_use, limit)
        reported == register_datapoint(answer,
                        IF prediction # "None" THEN "Ellipsis" ELSE "None")
    IN  IF answer = "load_raises"
        THEN Execution(image, workspace, credit, FALSE, credit, FALSE,
                       Result(TRUE, "Error while registration"))
        ELSE IF answer = "request_raises"
        THEN Execution(image, workspace, credit, TRUE, credit, FALSE,
                       Result(TRUE, "Error while registration"))
        ELSE Execution(image, workspace, credit, TRUE,
                       credit /\ reported = DUPLICATED_STATUS, answer = "registered",
                       Result(FALSE, reported))

\* one registration: the workspace name, a credit of the quota, then the
\* image is loaded, encoded and sent; the credit is returned in `finally`
\* when the registration raised or the image is a duplicate
execute_registration(image, prediction, limit, cached, in_use, answer) ==
    LET workspace == get_workspace_name(cached)
        credit == use_credit_of_matching_strategy(in_use, limit)
        reported == register_datapoint(answer,
                        IF prediction # "None" THEN "Ellipsis" ELSE "None")
    IN  IF ~ credit
        THEN Execution(image, workspace, FALSE, FALSE, FALSE, FALSE,
                       Result(FALSE, "Registration skipped due to usage quota exceeded"))
        ELSE IF answer = "load_raises"
        THEN Execution(image, workspace, TRUE, FALSE, TRUE, FALSE,
                       Result(TRUE, "Error while registration"))
        ELSE IF answer = "request_raises"
        THEN Execution(image, workspace, TRUE, TRUE, TRUE, FALSE,
                       Result(TRUE, "Error while registration"))
        ELSE Execution(image, workspace, TRUE, TRUE, reported = DUPLICATED_STATUS,
                       answer = "registered", Result(FALSE, reported))

\* partial(execute_registration, image=..., ...): the function with the
\* datapoint's arguments bound
registration_task(image, prediction, limit) ==
    [ fn |-> "execute_registration", bound |-> TRUE, image |-> image,
      prediction |-> prediction, limit |-> limit ]

\* what background_tasks.add_task is handed: the function execute_registration
\* itself, with no argument bound
AddedTask(image, prediction, limit) ==
    [ fn |-> "execute_registration", bound |-> FALSE, image |-> "",
      prediction |-> "", limit |-> 0 ]

\* one batch element: skipped, handed to the background runner, or registered
\* at once
register_datapoint_at_roboflow(image, prediction, limit, fire_and_forget, background_tasks, cached, in_use, answer) ==
    IF image = "None"
    THEN [ added |-> <<>>, exec |-> NoExecution,
           result |-> Result(FALSE, "Batch element skipped") ]
    ELSE IF fire_and_forget /\ background_tasks
    THEN [ added |-> << AddedTask(image, prediction, limit) >>, exec |-> NoExecution,
           result |-> Result(FALSE, "Element registration happens in the background task") ]
    ELSE LET task == registration_task(image, prediction, limit)
             e == execute_registration(task.image, task.prediction, task.limit,
                                       cached, in_use, answer)
         IN  [ added |-> <<>>, exec |-> e, result |-> e.result ]

\* variant: an element without image gets no result
DisabledResults_ImagesOnly(images) ==
    [ i \in 1..Cardinality({ j \in 1..Len(images) : images[j] # "None" }) |->
        Result(FALSE, "Sink was disabled by parameter disable_sink") ]

\* the results of a disabled sink: one for each element of `images`
DisabledResults(images) ==
    [ i \in 1..Len(images) |->
        Result(FALSE, "Sink was disabled by parameter disable_sink") ]

\* zip(images, predictions) ends with the shorter of the two
ZipLen(images, predictions) ==
    IF Len(images) <= Len(predictions) THEN Len(images) ELSE Len(predictions)

ImageLists == ListsOver({ "image", "None" }, MaxImages)

\* `predictions` for a batch of n images: None, or a list of detections as
\* long as the batch, one shorter, or one longer
PredictionArguments(n) ==
    { [ given |-> FALSE, items |-> <<>> ] }
    \cup { [ given |-> TRUE, items |-> [ i \in 1..m |-> "detections" ] ] :
             m \in { k \in { n - 1, n, n + 1 } : k >= 0 } }

\* the counters and the cache after an execution of execute_registration
Account(e) ==
    /\ granted' = IF e.credit THEN granted + 1 ELSE granted
    /\ given_back' = IF e.given_back THEN given_back + 1 ELSE given_back
    /\ requests' = IF e.sent THEN requests + 1 ELSE requests
    /\ registered' = IF e.registered THEN registered + 1 ELSE registered
    /\ ws_cached' = (ws_cached \/ e.ran)
    /\ last_exec' = IF e.ran THEN e ELSE last_exec

InitSink ==
    /\ step = NoStep
    /\ built = NoStep
    /\ last = NoCall
    /\ ncalls = 0
    /\ graph = <<>>
    /\ inputs = {}
    /\ report = {}
    /\ status = "declared"
    /\ \E api_key \in { "", "key" }, background_tasks \in BOOLEAN :
            SinkConstructed(api_key, background_tasks)
    /\ UtilitiesIdle

\* variant: the disable_sink test comes before the API key test
RunLocally_DisabledFirst ==
    /\ call.pc \in { "idle", "done" }
    /\ runs < MaxRuns
    /\ \E images \in ImageLists, disable_sink \in BOOLEAN,
          fire_and_forget \in BOOLEAN, limit \in 0..MaxLimit :
       \E predictions \in PredictionArguments(Len(images)) :
        LET started ==
                [ pc |-> "loop", images |-> images,
                  predictions |-> IF predictions.given THEN predictions.items
                                  ELSE [ i \in 1..Len(images) |-> "None" ],
                  disable_sink |-> disable_sink, fire_and_forget |-> fire_and_forget,
                  limit |-> limit, i |-> 1, out |-> <<>> ]
        IN  IF disable_sink
            THEN /\ call' = [ started EXCEPT !.pc = "done" ]
                 /\ response' = [ raised |-> "", out |-> DisabledResults(images) ]
            ELSE IF block.api_key = ""
            THEN /\ call' = [ started EXCEPT !.pc = "done" ]
                 /\ response' = [ raised |-> "ValueError", out |-> <<>> ]
            ELSE /\ call' = started
                 /\ response' = NoResponse
    /\ runs' = runs + 1
    /\ UNCHANGED << block, granted, given_back, requests, registered, ws_cached,
                    tasks, last_exec, last_task, unitVars, graphVars,
                    utilVars >>

\* run_locally up to its loop: the API key is required, a disabled sink
\* answers at once, a missing `predictions` becomes a list of None
RunLocally ==
    /\ call.pc \in { "idle", "done" }
    /\ runs < MaxRuns
    /\ \E images \in ImageLists, disable_sink \in BOOLEAN,
          fire_and_forget \in BOOLEAN, limit \in 0..MaxLimit :
       \E predictions \in PredictionArguments(Len(images)) :
        LET started ==
                [ pc |-> "loop", images |-> images,
                  predictions |-> IF predictions.given THEN predictions.items
                                  ELSE [ i \in 1..Len(images) |-> "None" ],
                  disable_sink |-> disable_sink, fire_and_forget |-> fire_and_forget,
                  limit |-> limit, i |-> 1, out |-> <<>> ]
        IN  IF block.api_key = ""
            THEN /\ call' = [ started EXCEPT !.pc = "done" ]
                 /\ response' = [ raised |-> "ValueError", out |-> <<>> ]
            ELSE IF disable_sink
            THEN /\ call' = [ started EXCEPT !.pc = "done" ]
                 /\ response' = [ raised |-> "", out |-> DisabledResults(images) ]
            ELSE /\ call' = started
                 /\ response' = NoResponse
    /\ runs' = runs + 1
    /\ UNCHANGED << block, granted, given_back, requests, registered, ws_cached,
                    tasks, last_exec, last_task, unitVars, graphVars,
                    utilVars >>

\* one turn of the loop of run_locally
RegisterNext ==
    /\ call.pc = "loop"
    /\ call.i <= ZipLen(call.images, call.predictions)
    /\ \E answer \in PlatformAnswers :
        LET r == register_datapoint_at_roboflow(
                    call.images[call.i], call.predictions[call.i], call.limit,
                    call.fire_and_forget, block.background_tasks, ws_cached,
                    granted - given_back, answer)
        IN  /\ tasks' = tasks \o r.added
            /\ Account(r.exec)
            /\ call' = [ call EXCEPT !.i = call.i + 1, !.out = Append(call.out, r.result) ]
    /\ UNCHANGED << block, response, last_task, runs, unitVars, graphVars,
                    utilVars >>

\* run_locally returns the results it gathered
ReturnResults ==
    /\ call.pc = "loop"
    /\ call.i > ZipLen(call.images, call.predictions)
    /\ response' = [ raised |-> "", out |-> call.out ]
    /\ call' = [ call EXCEPT !.pc = "done" ]
    /\ UNCHANGED << block, granted, given_back, requests, registered, ws_cached,
                    tasks, last_exec, last_task, runs, unitVars, graphVars,
                    utilVars >>

\* the background runner calls the next task it was handed: a function with
\* no argument bound raises TypeError for its missing arguments
RunBackgroundTask ==
    /\ tasks # <<>>
    /\ \E answer \in PlatformAnswers :
        IF Head(tasks).bound
        THEN /\ Account(execute_registration(Head(tasks).image, Head(tasks).prediction,
                                             Head(tasks).limit, ws_cached,
                                             granted - given_back, answer))
             /\ last_task' = [ ran |-> TRUE, raised |-> "" ]
        ELSE /\ last_task' = [ ran |-> TRUE, raised |-> "TypeError" ]
             /\ UNCHANGED << granted, given_back, requests, registered, ws_cached,
                             last_exec >>
    /\ tasks' = Tail(tasks)
    /\ UNCHANGED << block, call, response, runs, unitVars, graphVars,
                    utilVars >>

NextSink ==
    \/ RunLocally
    \/ RegisterNext
    \/ ReturnResults
    \/ RunBackgroundTask

SpecSink == InitSink /\ [][NextSink]_vars

\* ---------------------------------------------------- collector_utils.py

\* A usage is a dict: a function from the keys it carries to their values.

\* largest count of frames, and latest tick, of one usage
MaxFrames == 2

EmptyUsage == [ k \in {} |-> 0 ]

MergedKeys == { "timestamp_start", "timestamp_stop", "processed_frames", "source_duration" }

\* d.get("resource_id"): None when the usage does not carry the key
GetResourceId(d) == IF "resource_id" \in DOMAIN d THEN d["resource_id"] ELSE "None"

min(a, b) == IF a <= b THEN a ELSE b

max(a, b) == IF a >= b THEN a ELSE b

\* variant: the later usage overwrites the earlier one, nothing is combined
merge_usage_dicts_Overwrites(d1, d2) ==
    IF DOMAIN d1 # {} /\ DOMAIN d2 # {} /\ GetResourceId(d1) # GetResourceId(d2)
    THEN [ raised |-> "ValueError", value |-> EmptyUsage ]
    ELSE [ raised |-> "",
           value |-> [ k \in DOMAIN d1 \cup DOMAIN d2 |->
                        IF k \in DOMAIN d2 THEN d2[k] ELSE d1[k] ] ]

\* {**d1, **d2, **merged}: every key of either usage, with d2 over d1, and
\* the four merged keys combined where both usages carry them; ValueError
\* for two non-empty usages of different resources
merge_usage_dicts(d1, d2) ==
    IF DOMAIN d1 # {} /\ DOMAIN d2 # {} /\ GetResourceId(d1) # GetResourceId(d2)
    THEN [ raised |-> "ValueError", value |-> EmptyUsage ]
    ELSE [ raised |-> "",
           value |-> [ k \in DOMAIN d1 \cup DOMAIN d2 |->
                        IF k \in MergedKeys /\ k \in DOMAIN d1 /\ k \in DOMAIN d2
                        THEN CASE k = "timestamp_start" -> min(d1[k], d2[k])
                               [] k = "timestamp_stop" -> max(d1[k], d2[k])
                               [] k = "processed_frames" -> d1[k] + d2[k]
                               [] k = "source_duration" -> d1[k] + d2[k]
                        ELSE IF k \in DOMAIN d2 THEN d2[k] ELSE d1[k] ] ]

\* merge_usage_dicts(merge_usage_dicts(d1, d2), d3): an exception of the
\* inner call ends the outer one
MergeLeft(d1, d2, d3) ==
    LET inner == merge_usage_dicts(d1, d2)
    IN  IF inner.raised # "" THEN inner ELSE merge_usage_dicts(inner.value, d3)

\* merge_usage_dicts(d1, merge_usage_dicts(d2, d3))
MergeRight(d1, d2, d3) ==
    LET inner == merge_usage_dicts(d2, d3)
    IN  IF inner.raised # "" THEN inner ELSE merge_usage_dicts(d1, inner.value)

\* a usage of a resource that carries the keys `carried`, started at tick m
\* and counted m frames
UsageOf(resource_id, carried, m) ==
    [ k \in { "resource_id" } \cup carried |->
        CASE k = "resource_id" -> resource_id
          [] k = "timestamp_start" -> m
          [] k = "timestamp_stop" -> m + 1
          [] k = "processed_frames" -> m
          [] k = "source_duration" -> 2 * m ]

\* the usages the merges are called on: the empty usage, the usages of one
\* resource with every choice of the merged keys, and one usage of another
\* resource
Usages ==
    { EmptyUsage }
    \cup { UsageOf("a", carried, m) : carried \in SUBSET MergedKeys, m \in 1..MaxFrames }
    \cup { UsageOf("b", MergedKeys, 1) }

InitMerge ==
    /\ step = NoStep
    /\ built = NoStep
    /\ last = NoCall
    /\ ncalls = 0
    /\ graph = <<>>
    /\ inputs = {}
    /\ report = {}
    /\ status = "declared"
    /\ SinkConstructed("", FALSE)
    /\ operands \in [ 1..3 -> Usages ]
    /\ merged = NotCalled
    /\ usage_payloads = <<>>
    /\ zipped = NotCalled
    /\ crop_input = NotCalled
    /\ crop_output = NotCalled

\* the merges of the three operands, two at a time and all three
CallMergeUsageDicts ==
    /\ ~ merged.ran
    /\ merged' =
            [ ran |-> TRUE,
              d1d2 |-> merge_usage_dicts(operands[1], operands[2]),
              d2d1 |-> merge_usage_dicts(operands[2], operands[1]),
              left |-> MergeLeft(operands[1], operands[2], operands[3]),
              right |-> MergeRight(operands[1], operands[2], operands[3]) ]
    /\ UNCHANGED << operands, usage_payloads, zipped, crop_input, crop_output,
                    unitVars, graphVars, sinkVars >>

NextMerge == CallMergeUsageDicts

SpecMerge == InitMerge /\ [][NextMerge]_vars

\* A dict whose order of keys matters is a sequence of items [k, v] with
\* distinct keys. A usage payload is such a dict from API key hashes to
\* dicts from resource keys to usages.

\* longest list of usage payloads handed to zip_usage_payloads
MaxPayloads == 2

DictItem(key, value) == [ k |-> key, v |-> value ]

DictKeys(d) == [ i \in 1..Len(d) |-> d[i].k ]

DictHas(d, key) == \E i \in 1..Len(d) : d[i].k = key

\* d.setdefault(key, default) as a value
DictGet(d, key, default) ==
    IF DictHas(d, key) THEN d[CHOOSE i \in 1..Len(d) : d[i].k = key].v ELSE default

\* d[key] = value
DictSet(d, key, value) ==
    IF DictHas(d, key)
    THEN [ i \in 1..Len(d) |-> IF d[i].k = key THEN DictItem(key, value) ELSE d[i] ]
    ELSE Append(d, DictItem(key, value))

\* usage[key] = value
UsageSet(usage, key, value) ==
    [ k \in DOMAIN usage \cup { key } |-> IF k = key THEN value ELSE usage[k] ]

\* usage.get(key): None when the usage does not carry the key
UsageGet(usage, key) == IF key \in DOMAIN usage THEN usage[key] ELSE "None"

\* "key not in v or not v[key]"
MissingOrEmpty(usage, key) == key \notin DOMAIN usage \/ usage[key] \in { "", "None" }

\* the resource entries of one payload, in the order a nested loop over
\* usage_payload.items() and resource_payloads.items() visits them
RECURSIVE PayloadEntries(_)
PayloadEntries(usage_payload) ==
    IF usage_payload = <<>> THEN <<>>
    ELSE LET item == Head(usage_payload)
         IN  [ i \in 1..Len(item.v) |->
                 [ api_key_hash |-> item.k, resource_key |-> item.v[i].k,
                   usage |-> item.v[i].v ] ]
             \o PayloadEntries(Tail(usage_payload))

\* the resource entries of a list of payloads, in the order of the loops
RECURSIVE Entries(_)
Entries(payloads) ==
    IF payloads = <<>> THEN <<>>
    ELSE PayloadEntries(Head(payloads)) \o Entries(Tail(payloads))

\* the (api_key_hash, resource_payloads) items of a list of payloads, in the
\* order of the loops
RECURSIVE ApiKeyItems(_)
ApiKeyItems(payloads) ==
    IF payloads = <<>> THEN <<>> ELSE Head(payloads) \o ApiKeyItems(Tail(payloads))

\* the first usage filed under a non-empty API key (the given one, when one
\* is given) and a non-empty resource key that carries a resource_id:
\* << usage >>, or << >> for None
get_api_key_usage_containing_resource(api_key_hash, payloads) ==
    LET Qualifies(e) ==
            /\ ~ (api_key_hash # "" /\ e.api_key_hash # api_key_hash)
            /\ e.api_key_hash # ""
            /\ e.resource_key # ""
            /\ DOMAIN e.usage # {}
            /\ "resource_id" \in DOMAIN e.usage
        found == SelectSeq(Entries(payloads), Qualifies)
    IN  IF found = <<>> THEN <<>> ELSE << found[1].usage >>

\* the state of the loops of zip_usage_payloads
ZipState(merged_payloads, system_info_payload, raised) ==
    [ merged |-> merged_payloads, system_info |-> system_info_payload, raised |-> raised ]

\* lines 93-102: the usage is merged into the entry of its API key and
\* resource key
MergeIntoPayloads(acc, api_key_hash, resource_usage_key, usage) ==
    LET merged_api_key_payload == DictGet(acc.merged, api_key_hash, <<>>)
        merged_resource_payload ==
            DictGet(merged_api_key_payload, resource_usage_key, EmptyUsage)
        m == merge_usage_dicts(merged_resource_payload, usage)
    IN  IF m.raised # "" THEN ZipState(acc.merged, acc.system_info, m.raised)
        ELSE ZipState(DictSet(acc.merged, api_key_hash,
                              DictSet(merged_api_key_payload, resource_usage_key, m.value)),
                      acc.system_info, "")

\* one turn of the inner loop (lines 75-102): an entry without resource key
\* becomes the system info payload when its API key has no resource, and is
\* filed under that resource otherwise
ZipResourceItem(acc, api_key_hash, item, payloads) ==
    IF item.k = ""
    THEN LET found == get_api_key_usage_containing_resource(api_key_hash, payloads)
         IN  IF found = <<>>
             THEN ZipState(acc.merged, << << DictItem("", item.v) >> >>, "")
             ELSE LET resource_id == found[1]["resource_id"]
                      category == UsageGet(found[1], "category")
                  IN  MergeIntoPayloads(acc, api_key_hash, category \o ":" \o resource_id,
                          UsageSet(UsageSet(UsageSet(item.v, "api_key_hash", api_key_hash),
                                            "resource_id", resource_id),
                                   "category", category))
    ELSE MergeIntoPayloads(acc, api_key_hash, item.k, item.v)

\* the inner loop over resource_payloads.items(); an exception ends it
RECURSIVE ZipResourceItems(_, _, _, _)
ZipResourceItems(acc, api_key_hash, resource_payloads, payloads) ==
    IF resource_payloads = <<>> \/ acc.raised # "" THEN acc
    ELSE ZipResourceItems(
            ZipResourceItem(acc, api_key_hash, Head(resource_payloads), payloads),
            api_key_hash, Tail(resource_payloads), payloads)

\* lines 69-74: the usages filed without API key take the API key, and where
\* they have none the resource_id and the category, of the usage found
AdoptResource(resource_payloads, found) ==
    [ i \in 1..Len(resource_payloads) |->
        LET v0 == UsageSet(resource_payloads[i].v, "api_key_hash", found["api_key_hash"])
            v1 == IF MissingOrEmpty(v0, "resource_id")
                  THEN UsageSet(v0, "resource_id", found["resource_id"]) ELSE v0
            v2 == IF MissingOrEmpty(v1, "category")
                  THEN UsageSet(v1, "category", UsageGet(found, "category")) ELSE v1
        IN  DictItem(resource_payloads[i].k, v2) ]

\* one turn of the outer loops (lines 51-102) for one API key of one payload
ZipApiKeyItem(acc, item, payloads) ==
    IF item.k = ""
    THEN IF (Len(item.v) > 0 /\ Len(item.v) > 1) \/ DictKeys(item.v) # << "" >>
         THEN acc
         ELSE LET found == get_api_key_usage_containing_resource("", payloads)
              IN  IF found = <<>>
                  THEN ZipState(acc.merged, << item.v >>, "")
                  ELSE IF "api_key_hash" \notin DOMAIN found[1]
                  THEN ZipState(acc.merged, acc.system_info, "KeyError")
                  ELSE ZipResourceItems(acc, found[1]["api_key_hash"],
                                        AdoptResource(item.v, found[1]), payloads)
    ELSE ZipResourceItems(acc, item.k, item.v, payloads)

\* the outer loops; an exception ends them
RECURSIVE ZipApiKeyItems(_, _, _)
ZipApiKeyItems(acc, items, payloads) ==
    IF items = <<>> \/ acc.raised # "" THEN acc
    ELSE ZipApiKeyItems(ZipApiKeyItem(acc, Head(items), payloads), Tail(items), payloads)

\* the merged payload, followed by the system info payload when there is
\* one, filed under the api_key_hash its first usage carries
zip_usage_payloads(payloads) ==
    LET acc == ZipApiKeyItems(ZipState(<<>>, <<>>, ""), ApiKeyItems(payloads), payloads)
    IN  IF acc.raised # "" THEN [ ran |-> TRUE, raised |-> acc.raised, payloads |-> <<>> ]
        ELSE IF acc.system_info = <<>>
        THEN [ ran |-> TRUE, raised |-> "", payloads |-> << acc.merged >> ]
        ELSE LET first == acc.system_info[1][1].v
             IN  IF "api_key_hash" \notin DOMAIN first
                 THEN [ ran |-> TRUE, raised |-> "KeyError", payloads |-> <<>> ]
                 ELSE [ ran |-> TRUE, raised |-> "",
                        payloads |-> << acc.merged,
                                        << DictItem(first["api_key_hash"],
                                                    acc.system_info[1]) >> >> ]

\* an entry of a payload: filed under a resource key it names a resource and
\* a category; filed under "" it names none
ResourceEntry(api_key_hash, resource_key, frames) ==
    DictItem(resource_key,
             [ api_key_hash |-> api_key_hash,
               resource_id |-> IF resource_key = "" THEN "" ELSE "a",
               category |-> IF resource_key = "" THEN "" ELSE "model",
               processed_frames |-> frames ])

\* the payloads of one API key ("" for none): one entry without resource
\* key, one entry of a resource, or both
UsagePayloads ==
    { << DictItem(a, << ResourceEntry(a, key, f) >>) >> :
            a \in { "", "k" }, key \in { "", "model:a" }, f \in 1..MaxFrames }
    \cup { << DictItem(a, << ResourceEntry(a, "", f), ResourceEntry(a, "model:a", g) >>) >> :
            a \in { "", "k" }, f \in 1..MaxFrames, g \in 1..MaxFrames }

InitZip ==
    /\ step = NoStep
    /\ built = NoStep
    /\ last = NoCall
    /\ ncalls = 0
    /\ graph = <<>>
    /\ inputs = {}
    /\ report = {}
    /\ status = "declared"
    /\ SinkConstructed("", FALSE)
    /\ operands = <<>>
    /\ merged = NotCalled
    /\ usage_payloads \in ListsOver(UsagePayloads, MaxPayloads)
    /\ zipped = NotCalled
    /\ crop_input = NotCalled
    /\ crop_output = NotCalled

CallZipUsagePayloads ==
    /\ ~ zipped.ran
    /\ zipped' = zip_usage_payloads(usage_payloads)
    /\ UNCHANGED << operands, merged, usage_payloads, crop_input, crop_output,
                    unitVars, graphVars, sinkVars >>

NextZip == CallZipUsagePayloads

SpecZip == InitZip /\ [][NextZip]_vars

\* ------------------------------------------------ absolute_static_crop.py

\* longest side of an image, in pixels
MaxSide == 4

OriginCoordinatesSystem(left_top_x, left_top_y, origin_width, origin_height) ==
    [ left_top_x |-> left_top_x, left_top_y |-> left_top_y,
      origin_width |-> origin_width, origin_height |-> origin_height ]

ParentImageMetadata(parent_id, origin_coordinates) ==
    [ parent_id |-> parent_id, origin_coordinates |-> origin_coordinates ]

\* an image: its pixels by row and column, counted from 0, the metadata of
\* its parent and of the root of the workflow
WorkflowImageData(parent_metadata, root_metadata, numpy_image) ==
    [ parent_metadata |-> parent_metadata,
      workflow_root_ancestor_metadata |-> root_metadata,
      numpy_image |-> numpy_image ]

\* a workflow input image of the given size; every pixel is different
OriginImage(height, width) ==
    LET metadata == ParentImageMetadata("origin_image",
                        OriginCoordinatesSystem(0, 0, width, height))
    IN  WorkflowImageData(metadata, metadata,
            [ r \in 0..(height - 1) |-> [ c \in 0..(width - 1) |-> << r, c >> ] ])

\* variant: the crop keeps the origin of the image it was taken from
take_static_crop_OriginKept(image, x_center, y_center, width, height, uuid) ==
    LET x_min == x_center - width \div 2
        y_min == y_center - height \div 2
        metadata == ParentImageMetadata("absolute_static_crop." \o uuid,
                        image.parent_metadata.origin_coordinates)
    IN  WorkflowImageData(metadata, metadata,
            [ r \in 0..(height - 1) |->
                [ c \in 0..(width - 1) |-> image.numpy_image[y_min + r][x_min + c] ] ])

\* the crop of a rectangle inside the image: the pixels of the rectangle,
\* its left top corner as the origin of the crop in the parent and in the
\* root, the origin size of the parent kept, and a fresh parent id
take_static_crop(image, x_center, y_center, width, height, uuid) ==
    LET x_min == x_center - width \div 2
        y_min == y_center - height \div 2
        origin == image.parent_metadata.origin_coordinates
        metadata == ParentImageMetadata("absolute_static_crop." \o uuid,
                        OriginCoordinatesSystem(x_min, y_min, origin.origin_width,
                                                origin.origin_height))
    IN  WorkflowImageData(metadata, metadata,
            [ r \in 0..(height - 1) |->
                [ c \in 0..(width - 1) |-> image.numpy_image[y_min + r][x_min + c] ] ])

\* the rectangles of even size that lie inside an image side of `side`
\* pixels: the centre and the size along that side
RectanglesInside(side) ==
    { << center, size >> \in (0..side) \X (1..side) :
        /\ size % 2 = 0
        /\ center - size \div 2 >= 0
        /\ center + size \div 2 <= side }

InitCrop ==
    /\ step = NoStep
    /\ built = NoStep
    /\ last = NoCall
    /\ ncalls = 0
    /\ graph = <<>>
    /\ inputs = {}
    /\ report = {}
    /\ status = "declared"
    /\ SinkConstructed("", FALSE)
    /\ operands = <<>>
    /\ merged = NotCalled
    /\ usage_payloads = <<>>
    /\ zipped = NotCalled
    /\ \E image_height \in 1..MaxSide, image_width \in 1..MaxSide :
        \E x \in RectanglesInside(image_width), y \in RectanglesInside(image_height) :
            crop_input = [ image |-> OriginImage(image_height, image_width),
                           x_center |-> x[1], y_center |-> y[1],
                           width |-> x[2], height |-> y[2] ]
    /\ crop_output = NotCalled

CallTakeStaticCrop ==
    /\ ~ crop_output.ran
    /\ \E uuid \in { "uuid-1", "uuid-2" } :
        crop_output' =
            [ ran |-> TRUE,
              image |-> take_static_crop(crop_input.image, crop_input.x_center,
                                         crop_input.y_center, crop_input.width,
                                         crop_input.height, uuid) ]
    /\ UNCHANGED << operands, merged, usage_payloads, zipped, crop_input,
                    unitVars, graphVars, sinkVars >>

NextCrop == CallTakeStaticCrop

SpecCrop == InitCrop /\ [][NextCrop]_vars

\* --------------------------------------------------------------- claims

\* ------------------------------------------------------------- properties

IsSelectorCall == last.op = "validate_field_selector"

IsBindingCall == last.op = "validate_field_binding"

IsConstruction == last.op = "construct"

\* the selector call is made on a field of the step that holds a selector
OnSelectorField == IsSelectorCall /\ is_selector(step.fields[last.field])

C2_EmptyPredictionsRejected ==
    /\ (IsConstruction /\ last.cls = "DetectionsConsensus"
            /\ last.kwargs["predictions"] = ListV(<<>>))
            => last.outcome.kind = "ValidationError"
    /\ step.type = "DetectionsConsensus" => Len(step.fields["predictions"].l) >= 1

C2_Witness ==
    /\ IsConstruction /\ last.cls = "DetectionsConsensus"
    /\ last.kwargs["predictions"] = ListV(<<>>)
    /\ last.outcome.kind = "ValidationError"
    /\ step = NoStep

\* the call validates `predictions` of a consensus step
OnConsensusPredictions ==
    IsSelectorCall /\ last.cls = "DetectionsConsensus" /\ last.field = "predictions"

\* C3 as stated: on `predictions` of a consensus step with N elements, every
\* index outside 0..N-1 (N and the negative ones included) makes
\* validate_field_selector raise ExecutionGraphError.
C3_IndexOutOfRangeIsGraphError ==
    (OnConsensusPredictions /\ last.index # <<>>
        /\ (last.index[1] < 0 \/ last.index[1] >= Len(step.fields["predictions"].l)))
        => last.outcome.kind = "ExecutionGraphError"

\* C4 as stated: on a single-valued field (any but `predictions` of a
\* consensus step), validate_field_selector called with an index raises.
C4_IndexOnSingleFieldRejected ==
    (IsSelectorCall /\ ~ OnConsensusPredictions /\ last.index # <<>>)
        => last.outcome.kind # "ok"

\* C5: on `predictions` of a consensus step, validate_field_selector called
\* without an index raises (ExecutionGraphError), whatever the producer.
C5_MissingIndexRejected ==
    (OnConsensusPredictions /\ last.index = <<>>)
        => last.outcome = Err("ExecutionGraphError", "predictions")

C5_Witness ==
    /\ OnConsensusPredictions /\ last.index = <<>>
    /\ last.input_type = "ObjectDetectionModel"
    /\ last.outcome.kind = "ExecutionGraphError"

\* the fields of a class the claim lists as constrained to [0, 1]
ZeroOneFields(cls) ==
    ModelFields(cls) \cap
        { "confidence", "iou_threshold", "keypoint_confidence", "tradeoff_factor" }

IsNumberOutsideZeroOne(v) == v.t \in { "int", "float" } /\ (v.n < 0 \/ v.n > 10)

\* C6 as stated: constructing any step variant with a literal below 0 or
\* above 1 in one of its [0,1]-constrained fields fails.
C6_OutOfRangeLiteralRejected ==
    (IsConstruction
        /\ \E f \in ZeroOneFields(last.cls) \cap DOMAIN last.kwargs :
              IsNumberOutsideZeroOne(last.kwargs[f]))
        => last.outcome.kind = "ValidationError"

\* the fields that take detections
DetectionsFields(cls) ==
    CASE cls = "Crop" -> { "detections" }
      [] cls \in { "DetectionFilter", "DetectionOffset" } -> { "predictions" }
      [] OTHER -> {}

\* C7: on an `image` field holding a selector, validate_field_selector raises
\* InvalidStepInputDetected naming the field when the producer is not of
\* image kind; the same on a detections/predictions field when the producer
\* does not produce detections (for the consensus list, at a valid index).
C7_KindMismatchRejected ==
    /\ (OnSelectorField /\ last.field = "image"
            /\ last.input_type \notin ImageKindTypes)
            => last.outcome = Err("InvalidStepInputDetected", "image")
    /\ (OnSelectorField /\ last.field \in DetectionsFields(last.cls)
            /\ last.input_type \notin DetectionsKindTypes)
            => last.outcome = Err("InvalidStepInputDetected", last.field)
    /\ (OnConsensusPredictions /\ last.index # <<>>
            /\ 0 <= last.index[1]
            /\ last.index[1] < Len(step.fields["predictions"].l)
            /\ last.input_type \notin DetectionsKindTypes)
            => last.outcome = Err("InvalidStepInputDetected", "predictions")

C7_Witness ==
    /\ OnSelectorField /\ last.cls = "Crop" /\ last.field = "detections"
    /\ last.input_type = "ClassificationModel"
    /\ last.outcome = Err("InvalidStepInputDetected", "detections")

\* C9: validation leaves the step as its constructor returned it, and a call
\* made after any earlier calls has the outcome it has on the fresh step.
C9_ValidationHasNoSideEffects ==
    /\ step = built
    /\ IsSelectorCall =>
            last.outcome = validate_field_selector(built, last.field,
                                                   last.input_type, last.index)
    /\ IsBindingCall =>
            last.outcome = validate_field_binding(built, last.field, last.value)

C9_Witness ==
    /\ ncalls = MaxCalls
    /\ IsSelectorCall /\ last.cls = "ObjectDetectionModel"
    /\ last.field = "confidence" /\ last.outcome = Ok
    /\ step = built

Validated == status = "validated"

\* the selector names nothing declared, or a node that produces no detections
NoDetectionsBehind(text) == Resolve(graph, inputs, text) \notin DetectionsKindTypes

NoImageBehind(text) == Resolve(graph, inputs, text) \notin ImageKindTypes

\* the violations a step of the graph is due, as <<step, field, index>>: one
\* for each `predictions` element of a consensus step with no detections
\* behind it, one for an `image` selector with no image behind it, one for
\* a crop's `detections` selector with no detections behind it
DueOf(entry) ==
    LET f == entry.step.fields
    IN  (IF entry.step.type = "DetectionsConsensus"
         THEN { << entry.name, "predictions", << j - 1 >> >> :
                  j \in { k \in 1..Len(f["predictions"].l) :
                             NoDetectionsBehind(f["predictions"].l[k]) } }
         ELSE {})
        \cup
        (IF "image" \in DOMAIN f /\ is_selector(f["image"]) /\ NoImageBehind(f["image"].s)
         THEN { << entry.name, "image", <<>> >> }
         ELSE {})
        \cup
        (IF entry.step.type = "Crop" /\ NoDetectionsBehind(f["detections"].s)
         THEN { << entry.name, "detections", <<>> >> }
         ELSE {})

DueViolations == UNION { DueOf(graph[i]) : i \in 1..Len(graph) }

\* C8: the report of a validated graph holds a violation for every due one,
\* whatever their number and wherever they are: for a consensus step whose N
\* `predictions` are all malformed, N of them.
C8_EveryViolationReported ==
    Validated =>
        /\ \A d \in DueViolations :
                \E v \in report : << v.step, v.field, v.index >> = d
        /\ Cardinality(report) >= Cardinality(DueViolations)

C8_Witness ==
    /\ Validated
    /\ \E i \in 1..Len(graph) :
        /\ graph[i].step.type = "DetectionsConsensus"
        /\ Len(graph[i].step.fields["predictions"].l) = MaxPredictions
        /\ Cardinality(DueOf(graph[i])) = MaxPredictions
        /\ Cardinality({ v \in report : v.step = graph[i].name
                                        /\ v.field = "predictions" }) = MaxPredictions
        /\ \E v \in report : v.step # graph[i].name /\ v.field = "detections"

BranchTargetDeclared(text) ==
    /\ SelectorTarget(text).form = "step"
    /\ SelectorTarget(text).name \in StepNamesOf(graph)

\* C10: a validated graph with no violation has, for every Condition step,
\* both `step_if_true` and `step_if_false` naming declared steps.
C10_BranchTargetsDeclared ==
    (Validated /\ report = {}) =>
        \A i \in 1..Len(graph) :
            graph[i].step.type = "Condition" =>
                /\ BranchTargetDeclared(graph[i].step.fields["step_if_true"].s)
                /\ BranchTargetDeclared(graph[i].step.fields["step_if_false"].s)

C10_Witness ==
    /\ Validated
    /\ report = {}
    /\ \E i \in 1..Len(graph) : graph[i].step.type = "Condition"

\* C11: constructing an InstanceSegmentationModel with a literal
\* `mask_decode_mode` that is none of "accurate", "tradeoff", "fast" fails,
\* and with each of the three it succeeds.
C11_DecodeModeEnumerated ==
    (IsConstruction /\ last.cls = "InstanceSegmentationModel"
        /\ "mask_decode_mode" \in DOMAIN last.kwargs
        /\ last.kwargs["mask_decode_mode"] # NoneV
        /\ ~ is_selector(last.kwargs["mask_decode_mode"]))
        => IF /\ last.kwargs["mask_decode_mode"].t = "str"
              /\ last.kwargs["mask_decode_mode"].s \in { "accurate", "tradeoff", "fast" }
           THEN last.outcome = Ok
           ELSE last.outcome.kind = "ValidationError"

C11_Witness ==
    /\ IsConstruction /\ last.cls = "InstanceSegmentationModel"
    /\ "mask_decode_mode" \in DOMAIN last.kwargs
    /\ last.kwargs["mask_decode_mode"] = StrV("ultra")
    /\ last.outcome.kind = "ValidationError"
    /\ step = NoStep

\* the call binds a value to a coordinate of an AbsoluteStaticCrop
OnAbsoluteCoordinate ==
    /\ IsBindingCall /\ last.cls = "AbsoluteStaticCrop"
    /\ last.field \in { "x_center", "y_center", "width", "height" }

\* C12 as stated: validate_field_binding on a coordinate of an
\* AbsoluteStaticCrop accepts a value exactly when it is a number equal to its
\* own rounding, and raises VariableTypeError for every other value: every
\* non-integral float and every value that is no number.
C12_IntegralCoordinatesOnly ==
    OnAbsoluteCoordinate
        => IF /\ last.value.t \in { "int", "bool", "float" }
              /\ last.value # FloatInf
              /\ last.value.n % 10 = 0
           THEN last.outcome = Ok
           ELSE last.outcome = Err("VariableTypeError", last.field)

\* the model steps: RoboflowModel and the classes derived from it
ModelStepTypes ==
    { "RoboflowModel", "ClassificationModel", "MultiLabelClassificationModel",
      "ObjectDetectionModel", "KeypointsDetectionModel", "InstanceSegmentationModel" }

\* C13: on a declared input field of a model step other than `image` that
\* holds a selector, validate_field_selector returns without error when the
\* producer is a workflow parameter and raises InvalidStepInputDetected naming
\* the field for every other producer (the image input, a step).
C13_ParameterSelectorsOnly ==
    (OnSelectorField /\ last.cls \in ModelStepTypes /\ last.field # "image")
        => IF last.input_type = "InferenceParameter"
           THEN last.outcome = Ok
           ELSE last.outcome = Err("InvalidStepInputDetected", last.field)

C13_Witness ==
    /\ OnSelectorField /\ last.cls = "KeypointsDetectionModel"
    /\ last.field = "keypoint_confidence"
    /\ last.input_type = "ObjectDetectionModel"
    /\ last.outcome = Err("InvalidStepInputDetected", "keypoint_confidence")

\* C14: the declared inputs of KeypointsDetectionModel and of
\* InstanceSegmentationModel are ObjectDetectionModel's plus their added
\* fields only, and on every field inherited from ObjectDetectionModel
\* validate_field_binding of the subtype has the parent's outcome for the
\* same value: acceptance, or the same error.
C14_SubtypesExtendParent ==
    /\ get_input_names("ObjectDetectionModel") \subseteq
            get_input_names("KeypointsDetectionModel")
    /\ get_input_names("KeypointsDetectionModel") \ get_input_names("ObjectDetectionModel")
            = { "keypoint_confidence" }
    /\ get_input_names("ObjectDetectionModel") \subseteq
            get_input_names("InstanceSegmentationModel")
    /\ get_input_names("InstanceSegmentationModel") \ get_input_names("ObjectDetectionModel")
            = { "mask_decode_mode", "tradeoff_factor" }
    /\ (IsBindingCall
            /\ last.cls \in { "KeypointsDetectionModel", "InstanceSegmentationModel" }
            /\ last.field \in get_input_names("ObjectDetectionModel"))
            => last.outcome =
                    ObjectDetectionModel_validate_field_binding(last.field, last.value)

C14_Witness ==
    /\ IsBindingCall /\ last.cls = "KeypointsDetectionModel"
    /\ last.field = "confidence" /\ last.value = FloatV(15)
    /\ last.outcome = Err("VariableTypeError", "confidence")

\* the call validates an element of `predictions` at an index inside the list
OnConsensusElement ==
    /\ OnConsensusPredictions /\ last.index # <<>>
    /\ 0 <= last.index[1]
    /\ last.index[1] < Len(step.fields["predictions"].l)

\* the lists a consensus step can be constructed with that have the element
\* of `predictions` at position i and are long enough to hold it
ListsAgreeingAt(predictions, i) ==
    { l \in ListsOver(ListElements, MaxPredictions) :
        /\ predictions_must_be_list_of_selectors(ListV(l))
        /\ i <= Len(l)
        /\ l[i] = predictions[i] }

\* C15: on `predictions` of a consensus step at a valid index i, the outcome
\* of validate_field_selector is the one the same call has on every step that
\* differs in the other elements of the list only (their number included):
\* it depends on predictions[i] and the producer alone.
C15_ElementsValidatedIndependently ==
    OnConsensusElement =>
        \A l \in ListsAgreeingAt(step.fields["predictions"].l, last.index[1] + 1) :
            validate_field_selector(
                [ step EXCEPT !.fields["predictions"] = ListV(l) ],
                "predictions", last.input_type, last.index) = last.outcome

C15_Witness ==
    /\ OnConsensusElement
    /\ step.fields["predictions"].l = << DetectionsSelector, ClassificationSelector >>
    /\ last.index = << 0 >>
    /\ last.input_type = "ClassificationModel"
    /\ last.outcome = Err("InvalidStepInputDetected", "predictions")
    /\ ncalls = MaxCalls

\* None, a positive integer, or a mapping whose every value is a positive
\* integer
IsRequiredObjects(v) ==
    \/ v = NoneV
    \/ IsInt(v) /\ v.n > 0
    \/ v.t = "dict" /\ \A i \in 1..Len(v.d) : v.d[i].t = "int" /\ v.d[i].n > 0

\* C16 as stated: a literal `required_objects` of a consensus step is accepted
\* by the constructor exactly when it is None, a positive integer or a mapping
\* whose every value is a positive integer, and validate_field_binding
\* accepts a bound value in exactly the same cases (so the two agree).
C16_RequiredObjectsLiteral ==
    /\ (IsConstruction /\ last.cls = "DetectionsConsensus"
            /\ "required_objects" \in DOMAIN last.kwargs
            /\ ~ is_selector(last.kwargs["required_objects"]))
            => (last.outcome = Ok <=> IsRequiredObjects(last.kwargs["required_objects"]))
    /\ (IsBindingCall /\ last.cls = "DetectionsConsensus"
            /\ last.field = "required_objects")
            => (last.outcome = Ok <=> IsRequiredObjects(last.value))

\* the declared steps in another order
Reordered(g, p) == [ i \in 1..Len(g) |-> g[p[i]] ]

\* C17: the report of a validated graph is the report of the same steps
\* declared in any other order.
C17_OrderIndependent ==
    Validated =>
        \A p \in Permutations(1..Len(graph)) :
            ValidateGraphReport(Reordered(graph, p), inputs) = report

C17_Witness ==
    /\ Validated
    /\ Len(graph) = MaxSteps
    /\ graph[1].step.type = "Crop"
    /\ graph[1].step.fields["detections"].s = DetectionsSelector
    /\ graph[MaxSteps].name = "det"
    /\ graph[MaxSteps].step.type = "ClassificationModel"
    /\ \E v \in report :
            v.step = graph[1].name /\ v.field = "detections"
            /\ v.kind = "InvalidStepInputDetected"

\* the batch elements of the call in progress that were handed to the
\* background runner: fire_and_forget is set, a runner is there, and the
\* element has an image
HandedOver(i) ==
    /\ i < call.i
    /\ call.pc # "idle" /\ ~ call.disable_sink /\ block.api_key # ""
    /\ call.fire_and_forget /\ block.background_tasks
    /\ call.images[i] # "None"

\* C18 as stated: with fire_and_forget set and a background runner at hand,
\* register_datapoint_at_roboflow answers at once with (False, "Element
\* registration happens in the background task"), the task it hands to the
\* runner is the registration with the datapoint's arguments, and a task the
\* runner has run has executed that registration.
C18_BackgroundRegistrationRuns ==
    /\ \A i \in 1..Len(call.out) :
            HandedOver(i) =>
                call.out[i] =
                    Result(FALSE, "Element registration happens in the background task")
    /\ \A i \in 1..Len(tasks) : tasks[i].bound
    /\ last_task.ran => last_task.raised = ""

\* C19: a registration request is sent only by an execution that was handed
\* a credit; an execution that was handed none answers (False, "Registration
\* skipped due to usage quota exceeded"), sends nothing and returns no
\* credit; the requests sent never outnumber the credits handed out.
C19_RequestsWithinCredits ==
    /\ requests <= granted
    /\ given_back <= granted
    /\ last_exec.ran =>
        /\ last_exec.sent => last_exec.credit
        /\ ~ last_exec.credit =>
            /\ last_exec.result =
                    Result(FALSE, "Registration skipped due to usage quota exceeded")
            /\ ~ last_exec.sent
            /\ ~ last_exec.given_back

C19_Witness ==
    /\ last_exec.ran /\ ~ last_exec.credit
    /\ last_exec.result = Result(FALSE, "Registration skipped due to usage quota exceeded")
    /\ requests = 1 /\ granted = 1 /\ given_back = 0
    /\ call.limit = 1 /\ call.i = 3

\* C20: a run_locally call with disable_sink set, on a sink that has an API
\* key, uses no credit, returns none, hands no task to the background runner,
\* sends no request, and returns one result for each element of `images`,
\* each with error_status False.
C20_DisabledSinkDoesNothing ==
    [][ (runs' = runs + 1 /\ call'.disable_sink /\ block.api_key # "")
            => /\ granted' = granted
               /\ given_back' = given_back
               /\ requests' = requests
               /\ registered' = registered
               /\ tasks' = tasks
               /\ call'.pc = "done"
               /\ response'.raised = ""
               /\ Len(response'.out) = Len(call'.images)
               /\ \A i \in 1..Len(response'.out) : ~ response'.out[i].error_status ]_vars

C20_Witness ==
    /\ call.pc = "done" /\ call.disable_sink /\ block.api_key = "key"
    /\ call.images = << "image", "None" >>
    /\ response.raised = ""
    /\ Len(response.out) = 2
    /\ ~ response.out[1].error_status /\ ~ response.out[2].error_status

\* C22: an execution of execute_registration returns its credit exactly when
\* it was handed one and the registration raised or the platform reported a
\* duplicate; it keeps the credit when the image was registered and returns
\* none when it was handed none; so the credits handed out less the credits
\* returned are the images registered.
C22_CreditReturnedUnlessRegistered ==
    /\ granted - given_back = registered
    /\ last_exec.ran =>
        /\ last_exec.given_back <=>
                /\ last_exec.credit
                /\ \/ last_exec.result.error_status
                   \/ last_exec.result.message = DUPLICATED_STATUS
        /\ last_exec.registered => (last_exec.credit /\ ~ last_exec.given_back)
        /\ (last_exec.credit /\ ~ last_exec.given_back) => last_exec.registered

C22_Witness ==
    /\ granted = 2 /\ given_back = 1 /\ registered = 1
    /\ last_exec.ran /\ last_exec.credit /\ last_exec.given_back
    /\ last_exec.result = Result(FALSE, DUPLICATED_STATUS)

\* C23 as stated: an execution of execute_registration receives the workspace
\* name of the API key from get_workspace_name whether or not the cache held
\* the name before, and after the execution the cache holds the name.
C23_WorkspaceNameOnMissAndHit ==
    last_exec.ran =>
        /\ last_exec.workspace = get_workspace_name(TRUE)
        /\ ws_cached

\* C24 as stated: a run_locally call on an enabled sink with an API key
\* returns one result for each element of `images`, in the order of the
\* images, whatever `predictions` is.
C24_OneResultPerImage ==
    (call.pc = "done" /\ block.api_key # "" /\ ~ call.disable_sink) =>
        /\ response.raised = ""
        /\ Len(response.out) = Len(call.images)
        /\ \A i \in 1..Len(response.out) :
                (call.images[i] = "None") <=>
                    (response.out[i] = Result(FALSE, "Batch element skipped"))

\* C25 as stated: the message of every result the sink gathers, and of every
\* execution of execute_registration, is a string and never None.
C25_EveryResultHasMessage ==
    /\ \A i \in 1..Len(call.out) : call.out[i].message # "None"
    /\ \A i \in 1..Len(response.out) : response.out[i].message # "None"
    /\ last_exec.ran => last_exec.result.message # "None"

\* C26: a sink without an API key never uses a credit, hands no task to the
\* background runner and sends no request, and every run_locally call on it
\* raises ValueError and returns nothing, with disable_sink set or not.
C26_NoKeyRaisesFirst ==
    /\ [](block.api_key = "" =>
            /\ granted = 0 /\ given_back = 0 /\ requests = 0 /\ registered = 0
            /\ tasks = <<>>
            /\ ~ last_exec.ran /\ ~ last_task.ran)
    /\ [][ (runs' = runs + 1 /\ block.api_key = "")
                => /\ response'.raised = "ValueError"
                   /\ response'.out = <<>>
                   /\ call'.pc = "done" ]_vars

C26_Witness ==
    /\ block.api_key = "" /\ block.background_tasks
    /\ call.pc = "done" /\ call.disable_sink /\ call.fire_and_forget
    /\ call.images = << "image", "image" >>
    /\ response = [ raised |-> "ValueError", out |-> <<>> ]

\* two usages of the same resource: one of them is empty or both name the
\* same resource_id
SameResource(d1, d2) ==
    \/ DOMAIN d1 = {}
    \/ DOMAIN d2 = {}
    \/ /\ "resource_id" \in DOMAIN d1 /\ "resource_id" \in DOMAIN d2
       /\ d1["resource_id"] = d2["resource_id"]

\* both usages carry the key with the same value, or neither carries it
AgreeOn(d1, d2, k) ==
    /\ (k \in DOMAIN d1) <=> (k \in DOMAIN d2)
    /\ k \in DOMAIN d1 => d1[k] = d2[k]

\* C28: the merge of two usages of the same resource does not raise; where
\* both carry the key its timestamp_start is the smaller and its
\* timestamp_stop the larger of the two, its processed_frames and its
\* source_duration are the sums; on the four keys the merge gives the same
\* in either order and in either grouping of three usages of one resource;
\* the merge with an empty usage, on either side, is the other usage.
C28_MergeAlgebra ==
    LET d1 == operands[1]
        d2 == operands[2]
        d3 == operands[3]
        both(k) == k \in DOMAIN d1 /\ k \in DOMAIN d2
        m == merged.d1d2.value
    IN  (merged.ran /\ SameResource(d1, d2)) =>
            /\ merged.d1d2.raised = "" /\ merged.d2d1.raised = ""
            /\ both("timestamp_start") =>
                    /\ m["timestamp_start"] \in { d1["timestamp_start"], d2["timestamp_start"] }
                    /\ m["timestamp_start"] <= d1["timestamp_start"]
                    /\ m["timestamp_start"] <= d2["timestamp_start"]
            /\ both("timestamp_stop") =>
                    /\ m["timestamp_stop"] \in { d1["timestamp_stop"], d2["timestamp_stop"] }
                    /\ m["timestamp_stop"] >= d1["timestamp_stop"]
                    /\ m["timestamp_stop"] >= d2["timestamp_stop"]
            /\ both("processed_frames") =>
                    m["processed_frames"] = d1["processed_frames"] + d2["processed_frames"]
            /\ both("source_duration") =>
                    m["source_duration"] = d1["source_duration"] + d2["source_duration"]
            /\ \A k \in MergedKeys : AgreeOn(m, merged.d2d1.value, k)
            /\ (SameResource(d1, d3) /\ SameResource(d2, d3)) =>
                    /\ merged.left.raised = "" /\ merged.right.raised = ""
                    /\ \A k \in MergedKeys :
                            AgreeOn(merged.left.value, merged.right.value, k)
            /\ DOMAIN d2 = {} => m = d1
            /\ DOMAIN d1 = {} => m = d2

C28_Witness ==
    /\ merged.ran
    /\ operands[1] = UsageOf("a", MergedKeys, 2)
    /\ operands[2] = UsageOf("a", MergedKeys, 1)
    /\ operands[3] = UsageOf("a", { "processed_frames" }, 2)
    /\ merged.d1d2.value = [ resource_id |-> "a", timestamp_start |-> 1, timestamp_stop |-> 3,
                             processed_frames |-> 3, source_duration |-> 6 ]
    /\ merged.left.value["processed_frames"] = 5
    /\ merged.right.value["processed_frames"] = 5

RECURSIVE SumOf(_)
SumOf(numbers) == IF numbers = <<>> THEN 0 ELSE Head(numbers) + SumOf(Tail(numbers))

\* the processed_frames of all resource entries of a list of payloads
ProcessedFrames(payloads) ==
    LET e == Entries(payloads)
    IN  SumOf([ i \in 1..Len(e) |-> e[i].usage["processed_frames"] ])

\* C27 as stated: zip_usage_payloads returns payloads whose resource entries
\* carry, in sum, the processed_frames of the resource entries it was given.
C27_NoUsageLost ==
    zipped.ran =>
        /\ zipped.raised = ""
        /\ ProcessedFrames(zipped.payloads) = ProcessedFrames(usage_payloads)

\* C21: the crop of a rectangle inside the image has `height` rows of `width`
\* pixels, each the pixel of the source at the same place of the rectangle;
\* its origin in the parent and in the root is the left top corner of the
\* rectangle, x_center - width/2 and y_center - height/2, with the origin
\* size of the source image; its parent id starts with
\* "absolute_static_crop.".
C21_CropIsTheRectangle ==
    crop_output.ran =>
        LET source == crop_input.image
            crop == crop_output.image
            left == CHOOSE x \in 0..MaxSide : 2 * x = 2 * crop_input.x_center - crop_input.width
            top == CHOOSE y \in 0..MaxSide : 2 * y = 2 * crop_input.y_center - crop_input.height
            expected ==
                OriginCoordinatesSystem(left, top,
                    source.parent_metadata.origin_coordinates.origin_width,
                    source.parent_metadata.origin_coordinates.origin_height)
            prefix == "absolute_static_crop."
        IN  /\ DOMAIN crop.numpy_image = 0..(crop_input.height - 1)
            /\ \A r \in DOMAIN crop.numpy_image :
                    /\ DOMAIN crop.numpy_image[r] = 0..(crop_input.width - 1)
                    /\ \A c \in DOMAIN crop.numpy_image[r] :
                            crop.numpy_image[r][c] = source.numpy_image[top + r][left + c]
            /\ crop.parent_metadata.origin_coordinates = expected
            /\ crop.workflow_root_ancestor_metadata.origin_coordinates = expected
            /\ Len(crop.parent_metadata.parent_id) > Len(prefix)
            /\ SubSeq(crop.parent_metadata.parent_id, 1, Len(prefix)) = prefix

C21_Witness ==
    /\ crop_output.ran
    /\ crop_input.image = OriginImage(4, 3)
    /\ crop_input.x_center = 2 /\ crop_input.y_center = 2
    /\ crop_input.width = 2 /\ crop_input.height = 4
    /\ crop_output.image.numpy_image[0] = [ c \in 0..1 |-> << 0, c + 1 >> ]
    /\ crop_output.image.numpy_image[3] = [ c \in 0..1 |-> << 3, c + 1 >> ]
    /\ crop_output.image.parent_metadata.origin_coordinates =
            OriginCoordinatesSystem(1, 0, 3, 4)

====
